---- MODULE Spec2Model ----
(***************************************************************************)
(* Plan normalization and parsing engine of the email-productivity        *)
(* backend: backend/agent/plan_norm.py (normalize_decomposer_output and   *)
(* its helpers), backend/agent/task_schema.py (the typed Plan) and         *)
(* backend/agent/crew_agents.py (parse_plan).                              *)
(*                                                                         *)
(* Encoding of Python/JSON values                                          *)
(*   - a dict is a TLA+ record holding exactly the keys that are present;  *)
(*   - free text is a sequence of tokens (words and punctuation marks);    *)
(*   - a nullable value is <<>> (None / null) or <<v>>;                    *)
(*   - where the code tests a value's type, the value is tagged:           *)
(*     [dict |-> r], [list |-> l], [str |-> t], [int |-> n];               *)
(*   - a JSON number in "order" is [kind |-> "int" | "numstr" | "badstr",  *)
(*     n |-> k]: the integer k, the string of digits of k, or a string     *)
(*     that is no number.                                                  *)
(***************************************************************************)
EXTENDS Integers, Sequences, FiniteSets, TLC

\* ------------------------------------------------------------------------
\* Generic helpers for dicts, nullable values and tagged values
\* ------------------------------------------------------------------------
NoneV == <<>>
Some(v) == <<v>>
IsNone(o) == o = <<>>

HasKey(d, k) == k \in DOMAIN d
Get(d, k, default) == IF k \in DOMAIN d THEN d[k] ELSE default
SetKey(d, k, v) == [x \in (DOMAIN d) \cup {k} |-> IF x = k THEN v ELSE d[x]]
EmptyDict == [k \in {} |-> <<>>]

IsDict(v) == "dict" \in DOMAIN v
IsList(v) == "list" \in DOMAIN v
IsStr(v) == "str" \in DOMAIN v
JDict(r) == [dict |-> r]
JList(l) == [list |-> l]
JStr(t) == [str |-> t]
JInt(n) == [int |-> n]

Range(s) == {s[i] : i \in 1..Len(s)}

\* ------------------------------------------------------------------------
\* plan_norm.py: tables
\* ------------------------------------------------------------------------
TOOL_NAME_MAP ==
    [text_summarization |-> Some("summarize_email"),
     task_extraction    |-> Some("detect_tasks"),
     meeting_suggestion |-> Some("suggest_meetings"),
     combine_results    |-> NoneV]

ALLOWED_TOOLS ==
    {"summarize_email", "process_email", "detect_tasks", "suggest_meetings",
     "translate_text", "chat_with_context", "classify_attachment",
     "query_attachment"}

\* TOOL_NAME_MAP.get(name, name) for a nullable name
MapToolName(name) ==
    IF ~IsNone(name) /\ name[1] \in DOMAIN TOOL_NAME_MAP
    THEN TOOL_NAME_MAP[name[1]]
    ELSE name

\* ------------------------------------------------------------------------
\* plan_norm.py: text helpers.  Text is a sequence of tokens.
\* ------------------------------------------------------------------------
LowerTok(tok) ==
    CASE tok = "Email"     -> "email"
      [] tok = "Summarize" -> "summarize"
      [] tok = "Extract"   -> "extract"
      [] tok = "Content"   -> "content"
      [] tok = "Let's"     -> "let's"
      [] tok = "Tuesday"   -> "tuesday"
      [] OTHER             -> tok

Lower(text) == [i \in 1..Len(text) |-> LowerTok(text[i])]

HasTok(text, toks) == \E i \in 1..Len(text) : text[i] \in toks
HasPair(text, a, b) == \E i \in 1..(Len(text) - 1) : text[i] = a /\ text[i + 1] = b

\* Words of the vocabulary that contain the substring "task" / "extract"
ContainsTask == {"task", "tasks"}
ContainsExtract == {"extract"}
\* Words that begin with attachment|file|document, resp. end with
\* question|query|ask (ATTACH_QA_PAT has a word boundary only at its ends)
StartsAttach == {"attachment", "file", "document"}
EndsQuery == {"question", "query", "ask", "task"}

SUMMARY_PAT(t) == HasTok(t, {"summarize", "summarizing", "summarization"})
TASK_PAT(t) == HasTok(t, {"task", "actionable"}) \/ HasPair(t, "action", "item")
MEETING_PAT(t) == HasTok(t, {"meeting", "schedule", "propose", "suggest"})
TRANSLATE_PAT(t) == HasTok(t, {"translate", "translation"})
CLASSIFY_PAT(t) == HasTok(t, {"classify", "classification"})
ATTACH_QA_PAT(t) ==
    \E i \in 1..Len(t) : \E j \in 1..Len(t) :
        /\ t[i] \in StartsAttach
        /\ t[j] \in EndsQuery
        /\ i < j

\* _infer_tool_from_task_text: the inferred tool, or None
InferToolFromTaskText(task_text) ==
    LET t == Lower(task_text) IN
    IF SUMMARY_PAT(t) THEN Some("summarize_email")
    ELSE IF TASK_PAT(t) /\ HasTok(t, ContainsExtract) THEN Some("detect_tasks")
    ELSE IF MEETING_PAT(t) THEN Some("suggest_meetings")
    ELSE IF TRANSLATE_PAT(t) THEN Some("translate_text")
    ELSE IF CLASSIFY_PAT(t) THEN Some("classify_attachment")
    ELSE IF ATTACH_QA_PAT(t) THEN Some("query_attachment")
    ELSE IF HasTok(t, ContainsTask) THEN Some("detect_tasks")
    ELSE NoneV

DropFirst(text, n) == SubSeq(text, n + 1, Len(text))

\* _clean_email_input without its prefix patterns: the value is only trimmed
CleanEmailInputKeepsPrefix(val) == val

\* _clean_email_input: the two anchored prefix patterns, applied in turn
CleanEmailInput(val) ==
    LET p1(t) == IF Len(t) >= 2 /\ LowerTok(t[1]) = "email" /\ t[2] = ":"
                 THEN DropFirst(t, 2) ELSE t
        p2(t) == IF Len(t) >= 3 /\ LowerTok(t[1]) = "email"
                    /\ LowerTok(t[2]) = "content" /\ t[3] = ":"
                 THEN DropFirst(t, 3) ELSE t
    IN p2(p1(val))

\* ------------------------------------------------------------------------
\* plan_norm.py: step-shape resolvers
\* ------------------------------------------------------------------------
IntOrder(n) == [kind |-> "int", n |-> n]

\* Tools whose string input goes under "email_text" (else "input_text")
NestedTextTools == {"summarize_email", "process_email", "detect_tasks", "suggest_meetings"}
HeuristicTextTools ==
    {"summarize_email", "process_email", "detect_tasks", "suggest_meetings", "translate_text"}

\* str(v) of a JSON value: a string is itself, anything else its repr
PyStr(v) == IF IsStr(v) THEN v.str ELSE <<"<repr>">>

\* args of one action (lines 163-172)
ActionArgs(action, mapped) ==
    IF ~HasKey(action, "input") THEN EmptyDict
    ELSE IF IsDict(action.input) THEN action.input.dict
    ELSE IF IsStr(action.input)
         THEN IF mapped \in NestedTextTools
              THEN [email_text |-> CleanEmailInput(action.input.str)]
              ELSE [input_text |-> CleanEmailInput(action.input.str)]
    ELSE EmptyDict

\* The inner loop with "break" for the "continue" of line 161: the actions
\* after one without canonical equivalent are lost
RECURSIVE ActionsIntoBreak(_, _, _)
ActionsIntoBreak(s, actions, acc) ==
    IF actions = <<>> THEN acc
    ELSE LET action == Head(actions)
             tool_name == IF HasKey(action, "tool") THEN Some(action.tool) ELSE NoneV
             mapped == MapToolName(tool_name)
         IN IF IsNone(mapped) THEN acc
            ELSE ActionsIntoBreak(s, Tail(actions),
                   Append(acc,
                       [order |-> IntOrder(Len(acc) + 1),
                        task_id |-> NoneV,
                        tool |-> mapped[1],
                        args |-> ActionArgs(action, mapped[1]),
                        notes |-> IF HasKey(s, "description") THEN Some(s.description) ELSE NoneV]))

\* The inner loop over s["actions"] (lines 157-179); acc is normalized_steps
RECURSIVE ActionsInto(_, _, _)
ActionsInto(s, actions, acc) ==
    IF actions = <<>> THEN acc
    ELSE LET action == Head(actions)
             tool_name == IF HasKey(action, "tool") THEN Some(action.tool) ELSE NoneV
             mapped == MapToolName(tool_name)
         IN ActionsInto(s, Tail(actions),
                IF IsNone(mapped) THEN acc
                ELSE Append(acc,
                       [order |-> IntOrder(Len(acc) + 1),
                        task_id |-> NoneV,
                        tool |-> mapped[1],
                        args |-> ActionArgs(action, mapped[1]),
                        notes |-> IF HasKey(s, "description") THEN Some(s.description) ELSE NoneV]))

\* 1. steps that have actions (lines 155-179)
RECURSIVE NestedActionsSteps(_, _)
NestedActionsSteps(steps_raw, acc) ==
    IF steps_raw = <<>> THEN acc
    ELSE LET s == Head(steps_raw) IN
         NestedActionsSteps(Tail(steps_raw),
            IF IsDict(s) /\ HasKey(s.dict, "actions") /\ IsList(s.dict.actions)
            THEN ActionsInto(s.dict, s.dict.actions.list, acc)
            ELSE acc)

\* The test of line 186 on the resolved tool name
CanonicalToolOk(tool_name) ==
    ~IsNone(tool_name) /\ tool_name[1] # "" /\ tool_name[1] \in ALLOWED_TOOLS

\* 2. already-canonical steps (lines 183-188)
RECURSIVE CanonicalSteps(_, _)
CanonicalSteps(steps_raw, acc) ==
    IF steps_raw = <<>> THEN acc
    ELSE LET s == Head(steps_raw) IN
         CanonicalSteps(Tail(steps_raw),
            IF IsDict(s) /\ HasKey(s.dict, "order") /\ HasKey(s.dict, "tool")
            THEN LET tool_name == MapToolName(Some(s.dict.tool)) IN
                 IF CanonicalToolOk(tool_name)
                 THEN Append(acc, [s.dict EXCEPT !.tool = tool_name[1]])
                 ELSE acc
            ELSE acc)

\* Line 101 with a fallback that is no tool of the registry
HeuristicToolUnregistered(task_text) ==
    LET inferred == InferToolFromTaskText(task_text) IN
    IF IsNone(inferred) THEN "send_email" ELSE inferred[1]

\* The tool the heuristic shape gives a task text (line 101)
HeuristicTool(task_text) ==
    LET inferred == InferToolFromTaskText(task_text) IN
    IF IsNone(inferred) THEN "process_email" ELSE inferred[1]

\* _heuristic_from_step_shape with order = len(normalized) at line 115: the
\* orders start at 0
RECURSIVE HeuristicFromStepShapeFromZero(_, _)
HeuristicFromStepShapeFromZero(steps_raw, acc) ==
    IF steps_raw = <<>> THEN acc
    ELSE LET s == Head(steps_raw)
             d == s.dict
             has_basic == HasKey(d, "task") /\ HasKey(d, "input")
             task_text == Get(d, "task", <<>>)
             tool == HeuristicTool(task_text)
             email_text == CleanEmailInput(PyStr(Get(d, "input", JStr(<<>>))))
         IN HeuristicFromStepShapeFromZero(Tail(steps_raw),
              IF ~IsDict(s) THEN acc
              ELSE IF HasKey(d, "actions") \/ (HasKey(d, "tool") /\ HasKey(d, "order")) THEN acc
              ELSE IF ~has_basic THEN acc
              ELSE IF tool \notin ALLOWED_TOOLS THEN acc
              ELSE Append(acc,
                     [order |-> IntOrder(Len(acc)),
                      task_id |-> NoneV,
                      tool |-> tool,
                      args |-> IF tool \in HeuristicTextTools
                               THEN [email_text |-> email_text]
                               ELSE [input_text |-> email_text],
                      notes |-> Some(task_text)]))

\* 3. _heuristic_from_step_shape (lines 83-122); acc is normalized
RECURSIVE HeuristicFromStepShape(_, _)
HeuristicFromStepShape(steps_raw, acc) ==
    IF steps_raw = <<>> THEN acc
    ELSE LET s == Head(steps_raw)
             d == s.dict
             has_basic == HasKey(d, "task") /\ HasKey(d, "input")
             task_text == Get(d, "task", <<>>)
             tool == HeuristicTool(task_text)
             email_text == CleanEmailInput(PyStr(Get(d, "input", JStr(<<>>))))
         IN HeuristicFromStepShape(Tail(steps_raw),
              IF ~IsDict(s) THEN acc
              ELSE IF HasKey(d, "actions") \/ (HasKey(d, "tool") /\ HasKey(d, "order")) THEN acc
              ELSE IF ~has_basic THEN acc
              ELSE IF tool \notin ALLOWED_TOOLS THEN acc
              ELSE Append(acc,
                     [order |-> IntOrder(Len(acc) + 1),
                      task_id |-> NoneV,
                      tool |-> tool,
                      args |-> IF tool \in HeuristicTextTools
                               THEN [email_text |-> email_text]
                               ELSE [input_text |-> email_text],
                      notes |-> Some(task_text)]))

\* 3. only when the shapes before yielded nothing (lines 191-193)
AfterCanonical(steps_raw, canonical) ==
    IF canonical # <<>> THEN canonical
    ELSE HeuristicFromStepShape(steps_raw, <<>>)

\* Line 182 without its test: the later shapes add their steps
AfterNestedAppends(steps_raw, nested) ==
    nested \o AfterCanonical(steps_raw, CanonicalSteps(steps_raw, <<>>))

\* 2. only when the nested-actions shape yielded nothing (line 182)
AfterNested(steps_raw, nested) ==
    IF nested # <<>> THEN nested
    ELSE AfterCanonical(steps_raw, CanonicalSteps(steps_raw, <<>>))

\* Step-shape resolution (lines 151-193): the first shape that yields a step
ResolveSteps(steps_raw) == AfterNested(steps_raw, NestedActionsSteps(steps_raw, <<>>))

\* ------------------------------------------------------------------------
\* plan_norm.py: task synthesis, task-id back-fill, normalize_decomposer_output
\* ------------------------------------------------------------------------
\* One synthesized task (lines 207-214)
SynthTask(tid, tool) ==
    [id |-> tid,
     description |-> <<"Execute", tool>>,
     rationale |-> Some(<<"Derived", "from", "decomposed", "step">>),
     priority |-> "medium",
     suggested_tools |-> <<tool>>,
     requires_sequential |-> FALSE]

\* f"t{n}" (line 205)
TaskIdOf(n) ==
    CASE n = 1 -> "t1" [] n = 2 -> "t2" [] n = 3 -> "t3" [] n = 4 -> "t4"
      [] n = 5 -> "t5" [] n = 6 -> "t6" [] n = 7 -> "t7" [] OTHER -> "t8+"

\* The synthesis loop without the test of line 204: one task per step
RECURSIVE SynthesizeTasksPerStep(_, _, _)
SynthesizeTasksPerStep(steps, seen, tasks_list) ==
    IF steps = <<>> THEN tasks_list
    ELSE SynthesizeTasksPerStep(Tail(steps), seen,
             Append(tasks_list,
                    SynthTask(TaskIdOf(Len(tasks_list) + 1), Head(steps).tool)))

\* The synthesis loop (lines 200-215): seen is the key set of tool_to_task_id
RECURSIVE SynthesizeTasks(_, _, _)
SynthesizeTasks(steps, seen, tasks_list) ==
    IF steps = <<>> THEN tasks_list
    ELSE LET tool == Head(steps).tool IN
         IF tool \in seen
         THEN SynthesizeTasks(Tail(steps), seen, tasks_list)
         ELSE SynthesizeTasks(Tail(steps), seen \cup {tool},
                  Append(tasks_list, SynthTask(TaskIdOf(Cardinality(seen) + 1), tool)))

\* map_tool_task[tool] = t["id"] for the setdefault of line 222: the last
\* task that lists a tool wins
SetDefaultsOverwrite(m, tools, id) ==
    [x \in (DOMAIN m) \cup Range(tools) |-> IF x \in Range(tools) THEN id ELSE m[x]]

\* map_tool_task.setdefault(tool, t["id"]) over one task's suggested_tools
SetDefaults(m, tools, id) ==
    [x \in (DOMAIN m) \cup Range(tools) |-> IF x \in DOMAIN m THEN m[x] ELSE id]

\* map_tool_task (lines 219-222)
RECURSIVE BuildMapToolTask(_, _)
BuildMapToolTask(tasks, m) ==
    IF tasks = <<>> THEN m
    ELSE LET t == Head(tasks)
             tools == Get(t, "suggested_tools", <<>>)
         IN BuildMapToolTask(Tail(tasks),
                IF tools = <<>> THEN m ELSE SetDefaults(m, tools, t.id))

\* not s.get("task_id"): the key is absent, null or the empty string
LacksTaskId(s) ==
    ~HasKey(s, "task_id") \/ IsNone(s.task_id) \/ s.task_id[1] = ""

\* The back-fill without map_tool_task: always the first task's id
BackFillStepFirstTask(s, map_tool_task, tasks) ==
    IF LacksTaskId(s) THEN SetKey(s, "task_id", Some(tasks[1].id)) ELSE s

\* The back-fill of one step (lines 224-225)
BackFillStep(s, map_tool_task, tasks) ==
    IF LacksTaskId(s)
    THEN SetKey(s, "task_id",
             Some(IF s.tool \in DOMAIN map_tool_task
                  THEN map_tool_task[s.tool]
                  ELSE tasks[1].id))
    ELSE s

\* The lookups t["id"] of lines 222 and 225 that raise KeyError
BackFillRaises(tasks, steps) ==
    \/ \E i \in 1..Len(tasks) :
          Get(tasks[i], "suggested_tools", <<>>) # <<>> /\ ~HasKey(tasks[i], "id")
    \/ /\ \E i \in 1..Len(steps) : LacksTaskId(steps[i])
       /\ ~HasKey(tasks[1], "id")

Failure(err) == [ok |-> FALSE, err |-> err]

\* What json.loads raises on a text nested deeper than the interpreter's
\* recursion limit; it is no json.JSONDecodeError
RecursionError == "RecursionError: maximum recursion depth exceeded"

\* Unwrap {"plan": {...}} (lines 139-140)
UnwrapPlan(decoded) ==
    IF HasKey(decoded, "plan") /\ IsDict(decoded.plan)
    THEN decoded.plan.dict ELSE decoded

\* original_goal (lines 142-146)
GoalOf(data) ==
    IF Get(data, "original_goal", <<>>) # <<>> THEN data.original_goal
    ELSE Get(data, "goal", <<>>)

\* tasks after the synthesis (lines 198-215)
TasksFor(tasks_in, normalized_steps) ==
    IF tasks_in = <<>> THEN SynthesizeTasks(normalized_steps, {}, <<>>) ELSE tasks_in

\* The back-fill loop (lines 223-225)
BackFill(normalized_steps, map_tool_task, tasks) ==
    [i \in 1..Len(normalized_steps) |->
        BackFillStep(normalized_steps[i], map_tool_task, tasks)]

\* Lines 217-232, with the tasks settled
Finish(data, normalized_steps, tasks) ==
    IF BackFillRaises(tasks, normalized_steps)
    THEN Failure("KeyError: id")
    ELSE [ok |-> TRUE,
          original_goal |-> GoalOf(data),
          tasks |-> tasks,
          steps |-> BackFill(normalized_steps, BuildMapToolTask(tasks, EmptyDict), tasks),
          coverage_notes |-> Get(data, "coverage_notes", NoneV)]

\* Lines 195-232, with the steps resolved
AfterResolution(data, normalized_steps) ==
    IF normalized_steps = <<>>
    THEN Failure("Could not normalize steps")
    ELSE Finish(data, normalized_steps,
                TasksFor(Get(data, "tasks", <<>>), normalized_steps))

\* Lines 142-232, on the unwrapped mapping
NormalizeUnwrapped(data) ==
    AfterResolution(data, ResolveSteps(Get(data, "steps", <<>>)))

\* normalize_decomposer_output from the decoded mapping on (lines 138-232)
NormalizeDict(decoded) == NormalizeUnwrapped(UnwrapPlan(decoded))

\* A decoded value that is no mapping: "plan" in data or data.get raises
NormalizeData(decoded) ==
    IF IsDict(decoded) THEN NormalizeDict(decoded.dict)
    ELSE Failure("TypeError or AttributeError: not a mapping")

\* ------------------------------------------------------------------------
\* plan_norm.py: the text layer (extract_json_block, try_json_load).
\* A text is [form |-> f, doc |-> v]: the JSON value v written as plain JSON
\* ("json"), as JSON inside a fenced code block ("fenced"), or a text that is
\* no JSON ("garbage").  The texts of the model hold no code-fence marker
\* inside a string value.
\* ------------------------------------------------------------------------
\* re.sub(r",(\s*[}\]])", r"\1", raw) inside one string value: every comma
\* that is directly followed by a closing bracket is removed
CommaCleanup(text) ==
    LET keep(i) == ~(text[i] = "," /\ i < Len(text) /\ text[i + 1] \in {"}", "]"})
        kept == {i \in 1..Len(text) : keep(i)}
        nth(n) == CHOOSE i \in kept : Cardinality({j \in kept : j <= i}) = n
    IN [n \in 1..Cardinality(kept) |-> text[nth(n)]]

CleanOpt(o) == IF IsNone(o) THEN o ELSE Some(CommaCleanup(o[1]))
CleanArgs(a) == [k \in DOMAIN a |-> CommaCleanup(a[k])]

\* The cleanup applied to every string value of a document
RECURSIVE CleanDict(_)
RECURSIVE CleanTagged(_)
CleanVal(k, v) ==
    CASE k \in {"original_goal", "goal", "description", "task"} -> CommaCleanup(v)
      [] k \in {"coverage_notes", "notes", "rationale"} -> CleanOpt(v)
      [] k = "args" -> CleanArgs(v)
      [] k = "tasks" -> [i \in 1..Len(v) |-> CleanDict(v[i])]
      [] k = "steps" -> [i \in 1..Len(v) |-> CleanTagged(v[i])]
      [] k = "actions" ->
            IF IsList(v) THEN JList([i \in 1..Len(v.list) |-> CleanDict(v.list[i])])
            ELSE CleanTagged(v)
      [] k = "input" -> IF IsDict(v) THEN JDict(CleanArgs(v.dict)) ELSE CleanTagged(v)
      [] k = "plan" -> CleanTagged(v)
      [] OTHER -> v
CleanDict(d) == [k \in DOMAIN d |-> CleanVal(k, d[k])]
CleanTagged(v) ==
    IF IsStr(v) THEN JStr(CommaCleanup(v.str))
    ELSE IF IsDict(v) THEN JDict(CleanDict(v.dict))
    ELSE v

\* json.dumps(data)
JsonDumps(v) == [form |-> "json", doc |-> v]

\* extract_json_block: the interior of the first fenced block, else the text
ExtractJsonBlock(text) ==
    IF text.form = "fenced" THEN [form |-> "json", doc |-> text.doc] ELSE text

\* try_json_load: comma cleanup, then json.loads
TryJsonLoad(text) ==
    IF text.form = "json" THEN [ok |-> TRUE, value |-> CleanTagged(text.doc)]
    ELSE Failure("JSONDecodeError")

\* Lines 136-232, with the outcome of try_json_load
AfterLoad(loaded) ==
    IF loaded.ok THEN NormalizeData(loaded.value) ELSE loaded

\* normalize_decomposer_output(raw) (lines 125-232)
NormalizeDecomposerOutput(raw_text) == AfterLoad(TryJsonLoad(ExtractJsonBlock(raw_text)))

\* ------------------------------------------------------------------------
\* task_schema.py: the typed models (pydantic validation and defaults)
\* ------------------------------------------------------------------------
Priorities == {"low", "medium", "high"}

\* AtomicTask(**t) validates
AtomicTaskOk(t) ==
    /\ HasKey(t, "id")
    /\ HasKey(t, "description")
    /\ HasKey(t, "priority") => t.priority \in Priorities

\* AtomicTask(**t): required fields, defaults for the others, extras ignored
AtomicTask(t) ==
    [id |-> t.id,
     description |-> t.description,
     rationale |-> Get(t, "rationale", NoneV),
     priority |-> Get(t, "priority", "medium"),
     suggested_tools |-> Get(t, "suggested_tools", <<>>),
     requires_sequential |-> Get(t, "requires_sequential", FALSE)]

\* ExecutionStep(**s) validates: order is an int or a string of digits,
\* task_id, tool and args are required, task_id is a string
ExecutionStepOk(s) ==
    /\ HasKey(s, "order") /\ s.order.kind # "badstr"
    /\ HasKey(s, "task_id") /\ ~IsNone(s.task_id)
    /\ HasKey(s, "tool")
    /\ HasKey(s, "args")

\* ExecutionStep(**s): order coerced to int, extras ignored
ExecutionStep(s) ==
    [order |-> s.order.n,
     task_id |-> s.task_id[1],
     tool |-> s.tool,
     args |-> s.args,
     notes |-> Get(s, "notes", NoneV)]

DecomposedPlan(original_goal, tasks, steps, coverage_notes) ==
    [original_goal |-> original_goal,
     tasks |-> tasks,
     steps |-> steps,
     coverage_notes |-> coverage_notes]

\* ------------------------------------------------------------------------
\* crew_agents.py: parse_plan
\* ------------------------------------------------------------------------
RequiredKeys == {"original_goal", "tasks", "steps"}

\* BuildPlan without the test "if tasks and steps" of lines 541 and 556
BuildPlanNoEmptyTest(d, missing_msg) ==
    IF ~(RequiredKeys \subseteq DOMAIN d) THEN Failure(missing_msg)
    ELSE IF \E i \in 1..Len(d.tasks) : ~AtomicTaskOk(d.tasks[i])
    THEN Failure("ValidationError: AtomicTask")
    ELSE IF \E i \in 1..Len(d.steps) :
               ~IsDict(d.steps[i]) \/ ~ExecutionStepOk(d.steps[i].dict)
    THEN Failure("ValidationError: ExecutionStep")
    ELSE [ok |-> TRUE,
          plan |-> DecomposedPlan(
                      d.original_goal,
                      [i \in 1..Len(d.tasks) |-> AtomicTask(d.tasks[i])],
                      [i \in 1..Len(d.steps) |-> ExecutionStep(d.steps[i].dict)],
                      Get(d, "coverage_notes", NoneV))]

\* The body shared by the Direct and Unwrap attempts (lines 538-547 and
\* 553-562) on a mapping d: a Plan, or the error the attempt ends with.
\* A raw step that is no mapping makes ExecutionStep(**s) raise.
BuildPlan(d, missing_msg) ==
    IF ~(RequiredKeys \subseteq DOMAIN d) THEN Failure(missing_msg)
    ELSE IF \E i \in 1..Len(d.tasks) : ~AtomicTaskOk(d.tasks[i])
    THEN Failure("ValidationError: AtomicTask")
    ELSE IF \E i \in 1..Len(d.steps) :
               ~IsDict(d.steps[i]) \/ ~ExecutionStepOk(d.steps[i].dict)
    THEN Failure("ValidationError: ExecutionStep")
    ELSE IF d.tasks = <<>> \/ d.steps = <<>> THEN Failure(missing_msg)
    ELSE [ok |-> TRUE,
          plan |-> DecomposedPlan(
                      d.original_goal,
                      [i \in 1..Len(d.tasks) |-> AtomicTask(d.tasks[i])],
                      [i \in 1..Len(d.steps) |-> ExecutionStep(d.steps[i].dict)],
                      Get(d, "coverage_notes", NoneV))]

\* attempt == "direct" (lines 537-548); a value that is no mapping either
\* has none of the keys (a list, a string) or raises (a number)
DirectAttempt(data) ==
    IF IsDict(data) THEN BuildPlan(data.dict, "Direct parse missing required keys")
    ELSE IF IsList(data) \/ IsStr(data) THEN Failure("Direct parse missing required keys")
    ELSE Failure("TypeError: not iterable")

\* The object the Unwrap attempt leaves in data (lines 551-552)
UnwrapData(data) ==
    IF IsDict(data) /\ HasKey(data.dict, "plan") /\ IsDict(data.dict.plan)
    THEN data.dict.plan
    ELSE data

\* The Unwrap attempt without the rebinding data = data["plan"] of line 552
UnwrapAttemptKeepsWrapper(data) ==
    IF IsDict(data)
    THEN IF HasKey(data.dict, "plan") /\ IsDict(data.dict.plan)
         THEN BuildPlan(data.dict, "Unwrapped plan missing required keys")
         ELSE Failure("Unwrapped plan missing required keys")
    ELSE Failure("Unwrapped plan missing required keys")

\* attempt == "unwrap" (lines 550-563)
UnwrapAttempt(data) ==
    IF IsDict(data)
    THEN IF HasKey(data.dict, "plan") /\ IsDict(data.dict.plan)
         THEN BuildPlan(data.dict.plan.dict, "Unwrapped plan missing required keys")
         ELSE Failure("Unwrapped plan missing required keys")
    ELSE IF IsList(data) \/ IsStr(data) THEN Failure("Unwrapped plan missing required keys")
    ELSE Failure("TypeError: not iterable")

\* Lines 572-579, with the outcome of normalize_decomposer_output
PlanOfNormalized(normalized) ==
    IF ~normalized.ok THEN normalized
    ELSE IF \E i \in 1..Len(normalized.tasks) : ~AtomicTaskOk(normalized.tasks[i])
    THEN Failure("ValidationError: AtomicTask")
    ELSE IF \E i \in 1..Len(normalized.steps) : ~ExecutionStepOk(normalized.steps[i])
    THEN Failure("ValidationError: ExecutionStep")
    ELSE [ok |-> TRUE,
          plan |-> DecomposedPlan(
                      normalized.original_goal,
                      [i \in 1..Len(normalized.tasks) |-> AtomicTask(normalized.tasks[i])],
                      [i \in 1..Len(normalized.steps) |-> ExecutionStep(normalized.steps[i])],
                      normalized.coverage_notes)]

\* The final fallback (lines 570-581)
NormalizeAttempt(data) == PlanOfNormalized(NormalizeDecomposerOutput(JsonDumps(data)))

\* Lines 550-587, with the outcome r of the Unwrap attempt and the data it
\* left: the Plan returned, or the last error of the ValueError raised
AfterUnwrapAttempt(data, r) == IF r.ok THEN r ELSE NormalizeAttempt(data)

\* Lines 537-587, with the outcome r of the Direct attempt
AfterDirectAttempt(data, r) ==
    IF r.ok THEN r ELSE AfterUnwrapAttempt(UnwrapData(data), UnwrapAttempt(data))

\* parse_plan(raw) as one call (lines 490-587)
ParsePlan(raw_out) ==
    IF raw_out.form \in {"dict", "json", "fenced", "literal"}
    THEN AfterDirectAttempt(raw_out.doc, DirectAttempt(raw_out.doc))
    ELSE IF raw_out.form = "nested" THEN Failure(RecursionError)
    ELSE Failure("Failed to parse plan - not valid JSON or Python dict")

\* ------------------------------------------------------------------------
\* task_schema.py: ValidationIssue, ValidationReport.  A number is
\* [kind |-> k, n |-> v]: an int, a float (v in tenths), a string that
\* reads as a number ("numstr") or another string ("badstr").
\* ------------------------------------------------------------------------
Severities == {"info", "warning", "error"}
Statuses == {"ok", "needs_revision", "failed"}

\* ValidationIssue(**i) validates
ValidationIssueOk(i) ==
    /\ HasKey(i, "severity") /\ i.severity \in Severities
    /\ HasKey(i, "message")

\* ValidationIssue(**i)
ValidationIssue(i) ==
    [severity |-> i.severity,
     message |-> i.message,
     related_task_ids |-> Get(i, "related_task_ids", <<>>)]

\* float(x) raises for a string that reads as no number
FloatRaises(x) == x.kind = "badstr"
\* float(x)
Float(x) == [kind |-> "float", n |-> x.n]

\* The keyword arguments with "ok" as the default of status
ReportArgsStatusOk(data) ==
    [goal |-> Get(data, "goal", Some("")),
     plan_task_count |-> Get(data, "plan_task_count", [kind |-> "int", n |-> 0]),
     executed_task_ids |-> Get(data, "executed_task_ids", <<>>),
     missing_task_ids |-> Get(data, "missing_task_ids", <<>>),
     extraneous_tasks |-> Get(data, "extraneous_tasks", <<>>),
     adequacy_score |-> Get(data, "adequacy_score", [kind |-> "float", n |-> 0]),
     status |-> Get(data, "status", "ok"),
     issues |-> Get(data, "issues", <<>>),
     summary |-> Get(data, "summary", Some(""))]

\* The keyword arguments of lines 623-631, but for adequacy_score and issues
\* (a text is Some(t), a JSON null is None)
ReportArgs(data) ==
    [goal |-> Get(data, "goal", Some("")),
     plan_task_count |-> Get(data, "plan_task_count", [kind |-> "int", n |-> 0]),
     executed_task_ids |-> Get(data, "executed_task_ids", <<>>),
     missing_task_ids |-> Get(data, "missing_task_ids", <<>>),
     extraneous_tasks |-> Get(data, "extraneous_tasks", <<>>),
     adequacy_score |-> Get(data, "adequacy_score", [kind |-> "float", n |-> 0]),
     status |-> Get(data, "status", "failed"),
     issues |-> Get(data, "issues", <<>>),
     summary |-> Get(data, "summary", Some(""))]

\* ValidationReport(...) validates, with status declared a plain str
ValidationReportOkAnyStatus(args) ==
    /\ ~IsNone(args.goal)
    /\ args.plan_task_count.kind \in {"int", "numstr"}
    /\ ~IsNone(args.summary)

\* ValidationReport(...) validates: goal and summary are strings,
\* plan_task_count an int or a string of digits, status one of the Literal
ValidationReportOk(args) ==
    /\ ~IsNone(args.goal)
    /\ args.plan_task_count.kind \in {"int", "numstr"}
    /\ args.status \in Statuses
    /\ ~IsNone(args.summary)

\* ValidationReport(...), from arguments that validate
ValidationReport(args) ==
    [goal |-> args.goal[1],
     plan_task_count |-> args.plan_task_count.n,
     executed_task_ids |-> args.executed_task_ids,
     missing_task_ids |-> args.missing_task_ids,
     extraneous_tasks |-> args.extraneous_tasks,
     adequacy_score |-> Float(args.adequacy_score),
     status |-> args.status,
     issues |-> [k \in 1..Len(args.issues) |-> ValidationIssue(args.issues[k])],
     summary |-> args.summary[1]]

\* ------------------------------------------------------------------------
\* crew_agents.py: parse_validation.  A raw validator output is
\* [form |-> f, doc |-> v]: the value v already decoded ("dict"), written as
\* JSON ("json"), as JSON between code fences ("fenced"), as JSON inside
\* prose ("prose"), as a Python literal ("literal"), or no value at all
\* ("garbage").
\* ------------------------------------------------------------------------
\* Lines 593-619: the decoded value, or the ValueError of line 616
DecodeValidation(raw_out) ==
    IF raw_out.form \in {"dict", "json", "fenced", "literal"}
    THEN [ok |-> TRUE, value |-> raw_out.doc]
    ELSE IF raw_out.form = "nested" THEN Failure(RecursionError)
    ELSE Failure("Failed to parse validation JSON")

\* Lines 621-637, with the keyword arguments read: the try block
ReportOfArgs(args) ==
    IF FloatRaises(args.adequacy_score)
       \/ (\E k \in 1..Len(args.issues) : ~ValidationIssueOk(args.issues[k]))
       \/ ~ValidationReportOk(args)
    THEN Failure("Failed to parse validation report")
    ELSE [ok |-> TRUE, report |-> ValidationReport(args)]

\* Lines 621-637: data.get raises on a value that is no mapping
ReportOfData(value) ==
    IF IsDict(value) THEN ReportOfArgs(ReportArgs(value.dict))
    ELSE Failure("Failed to parse validation report")

\* Lines 607-637, with the outcome of the decode
AfterDecodeValidation(decoded) ==
    IF decoded.ok THEN ReportOfData(decoded.value) ELSE decoded

\* parse_validation(raw) (lines 590-637)
ParseValidation(raw_out) == AfterDecodeValidation(DecodeValidation(raw_out))

\* ------------------------------------------------------------------------
\* routers/agent_v2.py: the serialization of a Plan in run_advanced
\* ------------------------------------------------------------------------
\* t.dict() of an AtomicTask
TaskDict(t) ==
    [id |-> t.id,
     description |-> t.description,
     rationale |-> t.rationale,
     priority |-> t.priority,
     suggested_tools |-> t.suggested_tools,
     requires_sequential |-> t.requires_sequential]

\* s.dict() of an ExecutionStep
StepDict(s) ==
    [order |-> IntOrder(s.order),
     task_id |-> Some(s.task_id),
     tool |-> s.tool,
     args |-> s.args,
     notes |-> s.notes]

\* plan_dict with the goal under the key "goal"
PlanDictGoalKey(p) ==
    [goal |-> p.original_goal,
     tasks |-> [i \in 1..Len(p.tasks) |-> TaskDict(p.tasks[i])],
     steps |-> [i \in 1..Len(p.steps) |-> JDict(StepDict(p.steps[i]))],
     coverage_notes |-> p.coverage_notes]

\* plan_dict (lines 142-147)
PlanDict(p) ==
    [original_goal |-> p.original_goal,
     tasks |-> [i \in 1..Len(p.tasks) |-> TaskDict(p.tasks[i])],
     steps |-> [i \in 1..Len(p.steps) |-> JDict(StepDict(p.steps[i]))],
     coverage_notes |-> p.coverage_notes]

\* ------------------------------------------------------------------------
\* The raw values the agent runtime can hand to the parsers
\* ------------------------------------------------------------------------
MaxSteps == 2

SeqsUpTo(S, n) == UNION {[1..k -> S] : k \in 0..n}

EmailText == <<"Email", ":", "hello", "world">>
CommaText == <<"see", ",", ",", "]">>

\* actions of the nested-actions shape
ActSynonym == [tool |-> "text_summarization", input |-> JStr(EmailText)]
ActUnknown == [tool |-> "send_email", input |-> JStr(<<"hi">>)]
ActNoEquivalent == [tool |-> "combine_results"]
ActRegistered == [tool |-> "translate_text", input |-> JDict([text |-> <<"hola">>])]
ActNoTool == [input |-> JInt(5)]

RawSteps ==
    { \* nested-actions shape
      JDict([actions |-> JList(<<ActSynonym, ActUnknown>>), description |-> CommaText]),
      JDict([actions |-> JList(<<ActNoEquivalent, ActRegistered, ActNoTool>>)]),
      JDict([actions |-> JStr(<<"none">>)]),
      \* canonical shape
      JDict([order |-> IntOrder(1), task_id |-> Some("t1"), tool |-> "summarize_email",
             args |-> [email_text |-> <<"hi">>], notes |-> Some(CommaText)]),
      JDict([order |-> [kind |-> "numstr", n |-> 2], tool |-> "task_extraction",
             args |-> EmptyDict]),
      JDict([order |-> IntOrder(3), task_id |-> Some("t9"), tool |-> "detect_tasks",
             args |-> EmptyDict]),
      JDict([order |-> IntOrder(1), task_id |-> Some("t1"), tool |-> "send_email",
             args |-> EmptyDict]),
      JDict([order |-> [kind |-> "badstr", n |-> 0], task_id |-> NoneV,
             tool |-> "summarize_email"]),
      \* heuristic shape
      JDict([task |-> <<"Summarize", "this", "email">>, input |-> JStr(EmailText)]),
      JDict([task |-> <<"do", "it">>, input |-> JStr(<<"x">>)]),
      JDict([task |-> <<"translate", "it">>, input |-> JStr(EmailText)]),
      JDict([task |-> <<"handle", "the", "task">>]),
      \* no mapping at all
      JStr(<<"step">>) }

TaskSummarize ==
    [id |-> "t1", description |-> <<"summarize">>,
     suggested_tools |-> <<"summarize_email">>]
TaskBoth ==
    [id |-> "t2", description |-> <<"find", "tasks">>, rationale |-> NoneV,
     priority |-> "high", suggested_tools |-> <<"detect_tasks", "summarize_email">>]
TaskNoTools == [id |-> "t1", description |-> <<"other">>]
TaskNoId == [description |-> <<"no", "id">>, suggested_tools |-> <<"summarize_email">>]

RawTaskLists ==
    { <<>>,
      <<TaskSummarize>>,
      <<TaskSummarize, TaskBoth>>,
      <<TaskBoth, TaskSummarize>>,
      <<TaskNoTools, TaskBoth>>,
      <<TaskNoTools>>,
      <<TaskNoId>> }

GoalText == <<"triage", "the", "inbox">>

ListKey(k, l, keep_empty) == IF l = <<>> /\ ~keep_empty THEN EmptyDict ELSE k :> l

\* The mapping of one decomposer output, in one of its envelopes
Envelopes == {"canonical", "goal", "bare", "wrapped", "double"}
Document(env, tasks, steps) ==
    LET canonical == [original_goal |-> GoalText, coverage_notes |-> Some(CommaText)]
                     @@ ListKey("tasks", tasks, TRUE) @@ ListKey("steps", steps, TRUE)
        lists == ListKey("tasks", tasks, FALSE) @@ ListKey("steps", steps, FALSE)
    IN CASE env = "canonical" -> JDict(canonical)
         [] env = "goal" -> JDict([goal |-> GoalText] @@ lists)
         [] env = "bare" -> JDict(lists)
         [] env = "wrapped" -> JDict([plan |-> JDict(canonical)])
         [] env = "double" -> JDict([plan |-> JDict([plan |-> JDict(canonical)])])

Documents ==
    { Document(env, tasks, steps) :
        env \in Envelopes, tasks \in RawTaskLists,
        steps \in SeqsUpTo(RawSteps, MaxSteps) }
    \cup {JList(<<>>), JInt(5)}

\* A JSON text of brackets nested deeper than the recursion limit
NestedText == [form |-> "nested", doc |-> JList(<<>>)]

ParsePlanInputs == {[form |-> "dict", doc |-> d] : d \in Documents} \cup {NestedText}

\* A canonical document written as text: as JSON, as JSON between code
\* fences, as JSON surrounded by prose, and as a Python literal
TextForms == {"json", "fenced", "prose", "literal"}
EncodedInputs ==
    {[form |-> f, doc |-> Document("canonical", tasks, <<s>>)] :
        f \in TextForms, tasks \in RawTaskLists, s \in RawSteps}

\* Raw outputs of several lengths len(str(raw)): a plan as JSON text, a
\* mapping without steps, a JSON list and a text that is no JSON
TextLen == 120
RawLengths == {TextLen, 800, 801, 900, 1000, 1001, 1400}
SizedInputs ==
    {[form |-> "json", doc |-> Document("canonical", <<TaskSummarize>>, <<>>)],
     [form |-> "json", doc |-> Document("wrapped", <<TaskNoTools>>, <<>>)],
     [form |-> "dict", doc |-> Document("bare", <<>>, <<>>)],
     [form |-> "json", doc |-> JList(<<>>)],
     [form |-> "garbage", doc |-> JInt(0)]}

\* Task texts handed to _infer_tool_from_task_text: three sentences a
\* decomposer writes, and every text of up to MaxWords words of a vocabulary
MaxWords == 2
ExtractText == <<"Extract", "action", "items", "from", "the", "email">>
ScheduleText == <<"Let's", "schedule", "a", "meeting", "Tuesday">>
HandleText == <<"handle", "the", "task">>
Vocabulary ==
    {"Summarize", "Extract", "action", "item", "tasks", "task", "translate",
     "document", "question", "classify", "it"}
TaskTexts == {ExtractText, ScheduleText, HandleText} \cup SeqsUpTo(Vocabulary, MaxWords)
\* {"tasks": [{"task": "Summarize this email", "input": "Email: hello world"}]}
\* and the same element under "steps"
SummarizeElement == [task |-> <<"Summarize", "this", "email">>, input |-> JStr(EmailText)]
ScenarioATasksText == [form |-> "json", doc |-> JDict([tasks |-> <<SummarizeElement>>])]
ScenarioAStepsText == [form |-> "json", doc |-> JDict([steps |-> <<JDict(SummarizeElement)>>])]

NormalizeInputs ==
    {[form |-> f, doc |-> d] : f \in {"json", "fenced"}, d \in Documents}
    \cup {[form |-> "garbage", doc |-> JInt(0)]}
    \cup {ScenarioATasksText, ScenarioAStepsText}

\* Validator outputs: every field absent or present, with values the
\* validator prompt asks for and values it does not
IssueCritical == [severity |-> "critical", message |-> "m"]
IssueLists ==
    {<<>>,
     <<[severity |-> "warning", message |-> "m", related_task_ids |-> <<"t1">>],
       [severity |-> "error", message |-> "m"]>>,
     <<IssueCritical>>,
     <<[message |-> "m"]>>}
Opt(k, values) == {EmptyDict} \cup {k :> v : v \in values}
ReportDocs ==
    { JDict(a @@ b @@ c @@ d @@ e @@ f @@ g @@ h @@ i) :
        a \in Opt("goal", {Some("g"), NoneV}),
        b \in Opt("plan_task_count", {[kind |-> "int", n |-> 2], [kind |-> "badstr", n |-> 0]}),
        c \in Opt("executed_task_ids", {<<"t1", "t2">>}),
        d \in Opt("missing_task_ids", {<<"t3">>}),
        e \in Opt("extraneous_tasks", {<<"t4">>}),
        f \in Opt("adequacy_score",
                  {[kind |-> "float", n |-> 9], [kind |-> "int", n |-> 10],
                   [kind |-> "badstr", n |-> 0]}),
        g \in Opt("status", {"ok", "needs_revision", "failed", "partial"}),
        h \in Opt("issues", IssueLists),
        i \in Opt("summary", {Some("s")}) }
ScenarioBDoc == JDict([status |-> "ok"])
ValidationInputs ==
    {[form |-> f, doc |-> d] : f \in {"dict", "json"}, d \in ReportDocs}
    \cup {[form |-> f, doc |-> ScenarioBDoc] : f \in {"fenced", "prose", "literal", "garbage"}}
    \cup {[form |-> "json", doc |-> JList(<<>>)], NestedText}

\* Requests to run_advanced, and what the agent runtime returns to it
Requests ==
    [prompt : {"", "goal"}, validator : BOOLEAN, return_plan : BOOLEAN,
     enforce_revision : BOOLEAN]
StepOfT1 ==
    JDict([order |-> IntOrder(1), task_id |-> Some("t1"), tool |-> "summarize_email",
           args |-> [email_text |-> <<"hi">>], notes |-> NoneV])
DecompResults ==
    SizedInputs \cup
    {[form |-> "dict", doc |-> Document("canonical", <<TaskSummarize>>, <<StepOfT1>>)],
     [form |-> "json", doc |-> Document("wrapped", <<TaskSummarize, TaskBoth>>, <<StepOfT1>>)],
     ScenarioAStepsText}
Answers == {"answer", ""}
ValResults ==
    {[form |-> "json", doc |-> ScenarioBDoc],
     [form |-> "dict", doc |-> JDict([status |-> "needs_revision", summary |-> Some("s")])],
     [form |-> "json", doc |-> JDict([status |-> "failed", issues |-> <<IssueCritical>>])],
     [form |-> "json", doc |-> JDict([status |-> "partial"])],
     [form |-> "prose", doc |-> ScenarioBDoc],
     [form |-> "garbage", doc |-> ScenarioBDoc]}

\* ------------------------------------------------------------------------
\* State: one call of parse_plan or of normalize_decomposer_output
\* ------------------------------------------------------------------------
VARIABLES
    call,        \* the function called
    raw,         \* its argument
    pc,          \* position of the call
    data,        \* parse_plan: the local data (None before the decode)
    last_error,  \* parse_plan: the local last_error
    plan,        \* parse_plan: the Plan returned, or None
    error,       \* parse_plan: the ValueError raised, or None
    norm,        \* normalize_decomposer_output: its outcome, or None
    inferred,    \* _infer_tool_from_task_text: its return value
    report,      \* parse_validation: the ValidationReport returned, or None
    raw_len,     \* parse_plan: len(str(raw))
    detail,      \* parse_plan: what the ValueError raised carries, or None
    \* run_advanced: its locals (plan is shared with parse_plan), what it
    \* handed to the crews, its response or HTTPException, and the calls made
    plan_json, final_answer, validation_report, notes,
    exec_inputs, val_inputs, response, http_error, invoked,
    \* concurrent requests: the module-level ALLOWED_TOOLS and TOOL_NAME_MAP
    \* objects, what each caller passed and still holds, and the frame of
    \* each call (its position, its local data and what it returned or raised)
    registry, synonym_table, requests, frames

inferVars == <<inferred>>
validationVars == <<report>>
runVars == <<plan_json, final_answer, validation_report, notes,
             exec_inputs, val_inputs, response, http_error, invoked>>
sharedVars == <<registry, synonym_table, requests, frames>>
singleVars == <<call, raw, raw_len, pc, data, last_error, plan, error, detail, norm,
                inferVars, validationVars, runVars>>
vars == <<singleVars, sharedVars>>

Init ==
    /\ \/ call = "parse_plan" /\ raw \in ParsePlanInputs \cup EncodedInputs
          /\ raw_len = TextLen
       \/ call = "parse_plan" /\ raw \in SizedInputs /\ raw_len \in RawLengths
       \/ /\ \/ call = "normalize_decomposer_output" /\ raw \in NormalizeInputs
             \/ call = "_infer_tool_from_task_text" /\ raw \in TaskTexts
             \/ call = "parse_validation" /\ raw \in ValidationInputs
             \/ call = "run_advanced" /\ raw \in Requests
          /\ raw_len = TextLen
    /\ pc = "start"
    /\ data = NoneV
    /\ last_error = ""
    /\ plan = NoneV
    /\ error = NoneV
    /\ detail = NoneV
    /\ norm = NoneV
    /\ inferred = NoneV
    /\ report = NoneV
    /\ plan_json = NoneV /\ final_answer = NoneV
    /\ validation_report = NoneV /\ notes = NoneV
    /\ exec_inputs = NoneV /\ val_inputs = NoneV
    /\ response = NoneV /\ http_error = NoneV
    /\ invoked = <<>>
    /\ registry = ALLOWED_TOOLS /\ synonym_table = TOOL_NAME_MAP
    /\ requests = <<>> /\ frames = <<>>

\* Characters of str(raw) that a ValueError of parse_plan quotes
RawPrefixChars == 1000

\* str(raw) quoted whole
RawPrefixWhole(n) == n

\* len(str(raw)[:1000]) for a raw output of n characters
RawPrefix(n) == IF n <= RawPrefixChars THEN n ELSE RawPrefixChars

\* What a ValueError of parse_plan carries besides its headline: the
\* underlying cause and a prefix of str(raw), given by its length
Carried(cause) == Some([cause |-> cause, prefix |-> RawPrefix(raw_len)])

\* Lines 497-532 with the decode of lines 517-532 left out: only a value
\* that is a mapping already is taken
DecodeMappingOnly ==
    /\ call = "parse_plan" /\ pc = "start"
    /\ IF raw.form = "dict"
       THEN /\ data' = Some(raw.doc)
            /\ pc' = "direct"
            /\ error' = error
            /\ detail' = detail
       ELSE /\ data' = data
            /\ pc' = "failed"
            /\ error' = Some("Failed to parse plan - not valid JSON or Python dict")
            /\ detail' = Carried("literal_eval error")
    /\ UNCHANGED <<call, raw, raw_len, last_error, plan, norm>>
    /\ UNCHANGED <<inferVars, validationVars, runVars, sharedVars>>

\* parse_plan, lines 497-532: obtain the decoded value
Decode ==
    /\ call = "parse_plan" /\ pc = "start"
    /\ IF raw.form \in {"dict", "json", "fenced", "literal"}
       THEN /\ data' = Some(raw.doc)
            /\ pc' = "direct"
            /\ error' = error
            /\ detail' = detail
       ELSE IF raw.form = "nested"
       THEN /\ data' = data
            /\ pc' = "escaped"
            /\ error' = Some(RecursionError)
            /\ detail' = detail
       ELSE /\ data' = data
            /\ pc' = "failed"
            /\ error' = Some("Failed to parse plan - not valid JSON or Python dict")
            /\ detail' = Carried("literal_eval error")
    /\ UNCHANGED <<call, raw, raw_len, last_error, plan, norm>>
    /\ UNCHANGED <<inferVars, validationVars, runVars, sharedVars>>

\* The end of an attempt with outcome r: return the Plan, or keep the error
\* and go on at next_pc (the except clause of lines 565-567 and 580-581)
Outcome(r, next_pc) ==
    IF r.ok
    THEN /\ plan' = Some(r.plan) /\ pc' = "done"
         /\ last_error' = last_error /\ error' = error /\ detail' = detail
    ELSE /\ plan' = plan /\ pc' = next_pc
         /\ last_error' = r.err
         /\ error' = IF next_pc = "failed"
                     THEN Some("Failed to parse plan JSON after all attempts")
                     ELSE error
         /\ detail' = IF next_pc = "failed" THEN Carried(r.err) ELSE detail

\* The Direct attempt without the except clause of lines 565-567: its
\* failure ends the call
DirectNotRecovered ==
    /\ call = "parse_plan" /\ pc = "direct"
    /\ Outcome(DirectAttempt(data[1]), "failed")
    /\ UNCHANGED <<call, raw, raw_len, data, norm>>
    /\ UNCHANGED <<inferVars, validationVars, runVars, sharedVars>>

\* parse_plan, lines 537-548 and 565-567
Direct ==
    /\ call = "parse_plan" /\ pc = "direct"
    /\ Outcome(DirectAttempt(data[1]), "unwrap")
    /\ UNCHANGED <<call, raw, raw_len, data, norm>>
    /\ UNCHANGED <<inferVars, validationVars, runVars, sharedVars>>

\* parse_plan, lines 550-567
Unwrap ==
    /\ call = "parse_plan" /\ pc = "unwrap"
    /\ data' = Some(UnwrapData(data[1]))
    /\ Outcome(UnwrapAttempt(data[1]), "normalize")
    /\ UNCHANGED <<call, raw, raw_len, norm>>
    /\ UNCHANGED <<inferVars, validationVars, runVars, sharedVars>>

\* parse_plan, lines 569-587
Normalize ==
    /\ call = "parse_plan" /\ pc = "normalize"
    /\ Outcome(NormalizeAttempt(data[1]), "failed")
    /\ UNCHANGED <<call, raw, raw_len, data, norm>>
    /\ UNCHANGED <<inferVars, validationVars, runVars, sharedVars>>

\* One call of normalize_decomposer_output(raw)
NormalizeCall ==
    /\ call = "normalize_decomposer_output" /\ pc = "start"
    /\ norm' = Some(NormalizeDecomposerOutput(raw))
    /\ pc' = "done"
    /\ UNCHANGED <<call, raw, raw_len, data, last_error, plan, error, detail>>
    /\ UNCHANGED <<inferVars, validationVars, runVars, sharedVars>>

\* One call of _infer_tool_from_task_text(task_text)
InferCall ==
    /\ call = "_infer_tool_from_task_text" /\ pc = "start"
    /\ inferred' = InferToolFromTaskText(raw)
    /\ pc' = "done"
    /\ UNCHANGED <<call, raw, raw_len, data, last_error, plan, error, detail, norm, report>>
    /\ UNCHANGED <<runVars, sharedVars>>

\* The end of parse_validation with outcome r: return the report or raise
ValidationOutcome(r) ==
    IF r.ok
    THEN report' = Some(r.report) /\ pc' = "done" /\ error' = error
    ELSE /\ report' = report /\ error' = Some(r.err)
         /\ pc' = IF r.err = RecursionError THEN "escaped" ELSE "failed"

\* One call of parse_validation(raw)
ParseValidationCall ==
    /\ call = "parse_validation" /\ pc = "start"
    /\ ValidationOutcome(ParseValidation(raw))
    /\ UNCHANGED <<call, raw, raw_len, data, last_error, plan, detail, norm, inferred>>
    /\ UNCHANGED <<runVars, sharedVars>>

\* ------------------------------------------------------------------------
\* routers/agent_v2.py: run_advanced.  The attachment handling of lines
\* 106-131 only extends the email text handed to the execution crew; the
\* crews are the agent runtime, whose kickoff returns a value or raises.
\* ------------------------------------------------------------------------
HTTPException(status_code, text) == Some([status_code |-> status_code, detail |-> text])

parserVars == <<raw_len, data, last_error, error, detail, norm, inferred, report>>

\* Lines 103-104
CheckPrompt ==
    /\ call = "run_advanced" /\ pc = "start"
    /\ IF raw.prompt = ""
       THEN /\ http_error' = HTTPException(400, "Prompt cannot be empty")
            /\ pc' = "failed"
       ELSE /\ http_error' = http_error
            /\ pc' = "decomposition"
    /\ UNCHANGED <<call, raw, plan, plan_json, final_answer, validation_report, notes,
                   exec_inputs, val_inputs, response, invoked>>
    /\ UNCHANGED <<parserVars, sharedVars>>

\* Lines 139-151 without the except clause of lines 150-151: the run goes
\* on to the execution phase after a failure of parse_plan
DecompositionOutcomeGoesOn(r) ==
    /\ plan' = IF r.ok THEN Some(r.plan) ELSE plan
    /\ plan_json' = IF r.ok THEN Some(PlanDict(r.plan)) ELSE Some(EmptyDict)
    /\ pc' = "execution"
    /\ http_error' = http_error

\* Lines 139-151, with the outcome r of parse_plan
DecompositionOutcome(r) ==
    IF r.ok
    THEN /\ plan' = Some(r.plan)
         /\ plan_json' = Some(PlanDict(r.plan))
         /\ pc' = "execution"
         /\ http_error' = http_error
    ELSE /\ plan' = plan
         /\ plan_json' = plan_json
         /\ pc' = "failed"
         /\ http_error' = HTTPException(500, "Decomposition failed")

\* 1. Decomposition Phase (lines 133-151)
Decomposition ==
    /\ call = "run_advanced" /\ pc = "decomposition"
    /\ \/ /\ invoked' = Append(invoked, "decomp_crew.kickoff")
          /\ DecompositionOutcome(Failure("kickoff raised"))
       \/ \E decomp_result \in DecompResults :
             /\ invoked' = invoked \o <<"decomp_crew.kickoff", "parse_plan">>
             /\ DecompositionOutcome(ParsePlan(decomp_result))
    /\ UNCHANGED <<call, raw, final_answer, validation_report, notes,
                   exec_inputs, val_inputs, response>>
    /\ UNCHANGED <<parserVars, sharedVars>>

\* 2. Execution Phase (lines 153-176)
Execution ==
    /\ call = "run_advanced" /\ pc = "execution"
    /\ invoked' = Append(invoked, "exec_crew.kickoff")
    /\ exec_inputs' = Some([user_goal |-> raw.prompt, plan_json |-> plan_json[1]])
    /\ \/ /\ http_error' = HTTPException(500, "Execution failed")
          /\ final_answer' = final_answer
          /\ pc' = "failed"
       \/ \E exec_result \in Answers :
             /\ final_answer' = Some(exec_result)
             /\ http_error' = http_error
             /\ pc' = "validation"
    /\ UNCHANGED <<call, raw, plan, plan_json, validation_report, notes,
                   val_inputs, response>>
    /\ UNCHANGED <<parserVars, sharedVars>>

\* The response when the validation phase raises and its except clause
\* is missing: the request fails
RespondRaises(v, n) ==
    /\ validation_report' = v
    /\ notes' = n
    /\ response' = IF n = Some("Validation failed") THEN response
                   ELSE Some([success |-> TRUE,
                              output |-> final_answer[1],
                              plan |-> IF raw.return_plan THEN plan ELSE NoneV,
                              validation |-> v,
                              notes |-> n])
    /\ pc' = IF n = Some("Validation failed") THEN "failed" ELSE "done"

\* Lines 200-209: the response, with the report and the notes of the
\* validation phase
Respond(v, n) ==
    /\ validation_report' = v
    /\ notes' = n
    /\ response' = Some([success |-> TRUE,
                         output |-> final_answer[1],
                         plan |-> IF raw.return_plan THEN plan ELSE NoneV,
                         validation |-> v,
                         notes |-> n])
    /\ pc' = "done"

\* Lines 191-198 with a revision loop: a report that asks for a revision
\* sends the run back to the execution phase
ValidationOutcomeRevises(r) ==
    IF r.ok
    THEN IF r.report.status = "needs_revision" /\ raw.enforce_revision
         THEN /\ pc' = "execution"
              /\ validation_report' = Some(r.report)
              /\ UNCHANGED <<notes, response>>
         ELSE Respond(Some(r.report), NoneV)
    ELSE Respond(NoneV, Some("Validation failed"))

\* Lines 191-198, with the outcome r of parse_validation
ValidationOutcomeNotes(r) ==
    IF r.ok
    THEN Respond(Some(r.report),
                 IF r.report.status = "needs_revision" /\ raw.enforce_revision
                 THEN Some("Revision suggested; auto iterative refinement not implemented yet.")
                 ELSE NoneV)
    ELSE Respond(NoneV, Some("Validation failed"))

\* 3. Validation Phase and the response (lines 178-209)
Validation ==
    /\ call = "run_advanced" /\ pc = "validation"
    /\ IF ~raw.validator
       THEN /\ Respond(NoneV, NoneV)
            /\ UNCHANGED <<val_inputs, invoked>>
       ELSE /\ val_inputs' = Some([user_goal |-> raw.prompt,
                                   plan_json |-> plan_json[1],
                                   final_answer |-> final_answer[1]])
            /\ \/ /\ invoked' = Append(invoked, "val_crew.kickoff")
                  /\ ValidationOutcomeNotes(Failure("kickoff raised"))
               \/ \E val_result \in ValResults :
                     /\ invoked' = invoked \o <<"val_crew.kickoff", "parse_validation">>
                     /\ ValidationOutcomeNotes(ParseValidation(val_result))
    /\ UNCHANGED <<call, raw, plan, plan_json, final_answer, exec_inputs, http_error>>
    /\ UNCHANGED <<parserVars, sharedVars>>

Next ==
    \/ Decode \/ Direct \/ Unwrap \/ Normalize \/ NormalizeCall \/ InferCall
    \/ ParseValidationCall
    \/ CheckPrompt \/ Decomposition \/ Execution \/ Validation

Spec == Init /\ [][Next]_vars

\* ------------------------------------------------------------------------
\* Properties
\* ------------------------------------------------------------------------
NormalizeReturned ==
    call = "normalize_decomposer_output" /\ pc = "done" /\ norm[1].ok
ParsePlanReturned == call = "parse_plan" /\ pc = "done"

TaskIds(tasks) == {tasks[j].id : j \in {k \in 1..Len(tasks) : HasKey(tasks[k], "id")}}

\* C1: every step of a plan that normalize_decomposer_output returns has a
\* task_id that is the id of some task of the same plan.
C1_TaskIdResolves ==
    NormalizeReturned =>
        \A i \in 1..Len(norm[1].steps) :
            /\ ~LacksTaskId(norm[1].steps[i])
            /\ norm[1].steps[i].task_id[1] \in TaskIds(norm[1].tasks)

\* C2: every step of a plan that normalize_decomposer_output returns has a
\* tool of the Tool Registry, whichever step shape produced it.
C2_ToolRegistered ==
    NormalizeReturned =>
        \A i \in 1..Len(norm[1].steps) : norm[1].steps[i].tool \in ALLOWED_TOOLS

\* C3: every Plan that parse_plan returns is internally consistent: each
\* step's task_id is the id of a task of the Plan and each step's tool is
\* registered.
C3_PlanConsistent ==
    ParsePlanReturned =>
        \A i \in 1..Len(plan[1].steps) :
            /\ \E j \in 1..Len(plan[1].tasks) :
                  plan[1].tasks[j].id = plan[1].steps[i].task_id
            /\ plan[1].steps[i].tool \in ALLOWED_TOOLS

\* C4: parse_plan never returns a Plan with zero tasks or zero steps; when
\* no strategy yields a step the call fails and returns no Plan.
C4_NeverEmptyPlan ==
    call = "parse_plan" =>
        /\ pc = "done" => /\ ~IsNone(plan)
                          /\ plan[1].tasks # <<>>
                          /\ plan[1].steps # <<>>
        /\ pc # "done" => IsNone(plan)
        /\ pc = "failed" => ~IsNone(error)

\* C4 witness: every strategy has run on a mapping that has the three keys
\* with an empty steps list, and the call has failed.
C4_Witness ==
    /\ call = "parse_plan" /\ pc = "failed"
    /\ IsDict(raw.doc) /\ RequiredKeys \subseteq DOMAIN raw.doc.dict
    /\ raw.doc.dict.steps = <<>>
    /\ last_error = "Could not normalize steps"

\* C5: parse_plan tries Direct, then Unwrap, then Normalize; it returns the
\* Plan of the first strategy that builds one and runs nothing after it; a
\* failure of Direct or Unwrap moves on to the next strategy and never fails
\* the call.
C5_Step ==
    call = "parse_plan" =>
        /\ pc = "start" => pc' \in {"direct", "failed", "escaped"}
        /\ pc = "direct" =>
              IF DirectAttempt(data[1]).ok
              THEN pc' = "done" /\ plan' = Some(DirectAttempt(data[1]).plan)
              ELSE pc' = "unwrap" /\ IsNone(plan') /\ IsNone(error')
        /\ pc = "unwrap" =>
              IF UnwrapAttempt(data[1]).ok
              THEN pc' = "done" /\ plan' = Some(UnwrapAttempt(data[1]).plan)
              ELSE pc' = "normalize" /\ IsNone(plan') /\ IsNone(error')
        /\ pc = "normalize" =>
              IF NormalizeAttempt(data[1]).ok
              THEN pc' = "done" /\ plan' = Some(NormalizeAttempt(data[1]).plan)
              ELSE pc' = "failed" /\ IsNone(plan') /\ ~IsNone(error')
        /\ pc \in {"done", "failed"} => FALSE
C5_StrategyOrder == [][C5_Step]_vars

\* C5 witness: Direct and Unwrap have failed and Normalize has returned a Plan.
C5_Witness ==
    /\ ParsePlanReturned
    /\ last_error = "Unwrapped plan missing required keys"

\* The input shape of Scenario C: {"plan": inner} with the three keys and
\* non-empty, well-typed tasks and steps in inner
WellTyped(d) ==
    /\ RequiredKeys \subseteq DOMAIN d
    /\ d.tasks # <<>> /\ d.steps # <<>>
    /\ \A i \in 1..Len(d.tasks) : AtomicTaskOk(d.tasks[i])
    /\ \A i \in 1..Len(d.steps) : IsDict(d.steps[i]) /\ ExecutionStepOk(d.steps[i].dict)
WrappedWellTyped ==
    /\ call = "parse_plan" /\ IsDict(raw.doc)
    /\ DOMAIN raw.doc.dict = {"plan"}
    /\ IsDict(raw.doc.dict.plan)
    /\ WellTyped(raw.doc.dict.plan.dict)

\* C6: {"plan": {original_goal, tasks, steps}} with non-empty well-typed
\* tasks and steps parses through Unwrap after Direct failed on the missing
\* keys, to the Plan that Direct builds from the inner object alone.
C6_WrappedViaUnwrap ==
    WrappedWellTyped =>
        /\ pc \notin {"normalize", "failed"}
        /\ pc \in {"unwrap", "done"} => last_error = "Direct parse missing required keys"
        /\ pc = "done" => /\ DirectAttempt(raw.doc.dict.plan).ok
                          /\ plan = Some(DirectAttempt(raw.doc.dict.plan).plan)

\* C6 witness: the wrapped plan has been returned.
C6_Witness == WrappedWellTyped /\ pc = "done" /\ ~IsNone(plan)

\* C7: the mapping run_advanced serializes from a Plan that parse_plan
\* returned parses again, through Direct, to an equal Plan.
C7_RoundTrip ==
    ParsePlanReturned =>
        LET again == DirectAttempt(JDict(PlanDict(plan[1]))) IN
        again.ok /\ again.plan = plan[1]

\* C7 witness: a returned Plan built by Normalize from a step whose order
\* was a string of digits and whose task_id was back-filled.
C7_Witness ==
    /\ ParsePlanReturned
    /\ last_error # ""
    /\ \E i \in 1..Len(plan[1].steps) : plan[1].steps[i].order = 2

\* The output of normalize_decomposer_output as a JSON document
OutputDoc(out) ==
    JDict([original_goal |-> out.original_goal,
           tasks |-> out.tasks,
           steps |-> [i \in 1..Len(out.steps) |-> JDict(out.steps[i])],
           coverage_notes |-> out.coverage_notes])

\* C8: normalizing the JSON serialization of a plan that
\* normalize_decomposer_output returned succeeds and reproduces the same
\* tasks and the same steps.
C8_Idempotent ==
    NormalizeReturned =>
        LET again == NormalizeDecomposerOutput(JsonDumps(OutputDoc(norm[1]))) IN
        /\ again.ok
        /\ again.tasks = norm[1].tasks
        /\ again.steps = norm[1].steps

\* The mapping the normalizer works on, and its resolved steps before the
\* back-fill
NormalizerData == UnwrapPlan(TryJsonLoad(ExtractJsonBlock(raw)).value.dict)
ResolvedSteps == ResolveSteps(Get(NormalizerData, "steps", <<>>))

\* C9: a resolved step without task_id gets the id of the first task, in
\* list order, whose suggested_tools holds the step's tool, or the first
\* task's id when no task holds it; a step with a task_id keeps it.
C9_BackFill ==
    NormalizeReturned =>
        LET tasks == norm[1].tasks
            out == norm[1].steps
            Holds(j, tool) == tool \in Range(Get(tasks[j], "suggested_tools", <<>>))
            Holders(tool) == {j \in 1..Len(tasks) : Holds(j, tool)}
        IN /\ Len(out) = Len(ResolvedSteps)
           /\ \A i \in 1..Len(out) :
                LET s == ResolvedSteps[i] IN
                /\ \A k \in (DOMAIN s) \ {"task_id"} : out[i][k] = s[k]
                /\ IF ~LacksTaskId(s) THEN out[i].task_id = s.task_id
                   ELSE IF Holders(s.tool) = {} THEN out[i].task_id = Some(tasks[1].id)
                   ELSE \E j \in Holders(s.tool) :
                           /\ \A k \in Holders(s.tool) : j <= k
                           /\ out[i].task_id = Some(tasks[j].id)

\* C9 witness: with given tasks, one step was back-filled with the id of a
\* task that is not the first of the list, another step kept its own id.
C9_Witness ==
    /\ NormalizeReturned
    /\ Get(NormalizerData, "tasks", <<>>) # <<>>
    /\ \E i \in 1..Len(ResolvedSteps) :
          /\ LacksTaskId(ResolvedSteps[i])
          /\ norm[1].steps[i].task_id # Some(norm[1].tasks[1].id)
    /\ \E i \in 1..Len(ResolvedSteps) : ~LacksTaskId(ResolvedSteps[i])

\* The actions of the raw steps of the nested-actions shape, in order
RECURSIVE FlatActions(_)
FlatActions(steps_raw) ==
    IF steps_raw = <<>> THEN <<>>
    ELSE LET s == Head(steps_raw) IN
         (IF IsDict(s) /\ HasKey(s.dict, "actions") /\ IsList(s.dict.actions)
          THEN s.dict.actions.list ELSE <<>>) \o FlatActions(Tail(steps_raw))
ResolvedTool(action) ==
    MapToolName(IF HasKey(action, "tool") THEN Some(action.tool) ELSE NoneV)
HasEquivalent(action) == ~IsNone(ResolvedTool(action))
RawActions == FlatActions(Get(NormalizerData, "steps", <<>>))

\* C10: each action whose tool resolves to a registered name yields exactly
\* one step, the steps keep the order of the actions across and within the
\* raw steps, and an action without canonical equivalent yields no step and
\* no error.
C10_NestedFlattening ==
    (call = "normalize_decomposer_output" /\ pc = "done"
        /\ TryJsonLoad(ExtractJsonBlock(raw)).ok
        /\ IsDict(TryJsonLoad(ExtractJsonBlock(raw)).value)) =>
        LET kept == SelectSeq(RawActions, HasEquivalent) IN
        kept # <<>> =>
            /\ ~norm[1].ok => norm[1].err = "KeyError: id"
            /\ norm[1].ok =>
                 /\ Len(norm[1].steps) = Len(kept)
                 /\ \A i \in 1..Len(kept) :
                      /\ norm[1].steps[i].tool = ResolvedTool(kept[i])[1]
                      /\ norm[1].steps[i].order = IntOrder(i)
                      /\ norm[1].steps[i].args =
                            ActionArgs(kept[i], ResolvedTool(kept[i])[1])

\* C10 witness: two raw steps with five actions, two of them without
\* canonical equivalent, were flattened to three steps.
C10_Witness ==
    /\ NormalizeReturned
    /\ Len(RawActions) = 5
    /\ Len(norm[1].steps) = 3

\* ------------------------------------------------------------------------
\* Heuristic inference
\* ------------------------------------------------------------------------
InferReturned == call = "_infer_tool_from_task_text" /\ pc = "done"

\* C11: _infer_tool_from_task_text maps "Extract action items from the
\* email" to detect_tasks, "Let's schedule a meeting Tuesday" to
\* suggest_meetings and "handle the task" to detect_tasks.
C11_InferenceExamples ==
    InferReturned =>
        /\ raw = ExtractText => inferred = Some("detect_tasks")
        /\ raw = ScheduleText => inferred = Some("suggest_meetings")
        /\ raw = HandleText => inferred = Some("detect_tasks")

\* The raw steps of a call whose input decoded to a mapping, and the call's
\* arrival at the heuristic shape (no step of the two shapes before it)
DecodedMapping ==
    /\ call = "normalize_decomposer_output" /\ pc = "done"
    /\ TryJsonLoad(ExtractJsonBlock(raw)).ok
    /\ IsDict(TryJsonLoad(ExtractJsonBlock(raw)).value)
RawStepsIn == Get(NormalizerData, "steps", <<>>)
HeuristicReached ==
    /\ DecodedMapping
    /\ NestedActionsSteps(RawStepsIn, <<>>) = <<>>
    /\ CanonicalSteps(RawStepsIn, <<>>) = <<>>
HeuristicShaped(s) ==
    /\ IsDict(s)
    /\ HasKey(s.dict, "task") /\ HasKey(s.dict, "input")
    /\ ~HasKey(s.dict, "actions")
    /\ ~(HasKey(s.dict, "tool") /\ HasKey(s.dict, "order"))
Inferable(s) == HeuristicShaped(s) /\ ~IsNone(InferToolFromTaskText(s.dict.task))

\* C12: in the heuristic shape only the raw steps whose task text yields a
\* tool contribute a step, in order; a step whose text matches no pattern
\* and holds no "task" contributes none, and when no raw step yields a
\* tool the normalization fails.
C12_UnmatchedSkipped ==
    HeuristicReached =>
        LET kept == SelectSeq(RawStepsIn, Inferable) IN
        /\ kept = <<>> => ~norm[1].ok
        /\ norm[1].ok =>
             /\ Len(norm[1].steps) = Len(kept)
             /\ \A i \in 1..Len(kept) :
                  norm[1].steps[i].notes = Some(kept[i].dict.task)

\* The plan of Scenario A: one task for summarize_email, and one step with
\* tool summarize_email, order 1 and the cleaned text "hello world"
ScenarioAPlan(out) ==
    /\ out.ok
    /\ Len(out.tasks) = 1
    /\ out.tasks[1].suggested_tools = <<"summarize_email">>
    /\ Len(out.steps) = 1
    /\ out.steps[1].tool = "summarize_email"
    /\ out.steps[1].order = IntOrder(1)
    /\ out.steps[1].args = [email_text |-> <<"hello", "world">>]
    /\ out.steps[1].task_id = Some(out.tasks[1].id)

\* C13 as stated: the raw text {"tasks": [{"task": "Summarize this email",
\* "input": "Email: hello world"}]} normalizes to the plan of Scenario A.
C13_ScenarioATasks ==
    (call = "normalize_decomposer_output" /\ pc = "done" /\ raw = ScenarioATasksText)
        => ScenarioAPlan(norm[1])

\* C13 amended: the raw text {"steps": [{"task": "Summarize this email",
\* "input": "Email: hello world"}]} normalizes to the plan of Scenario A.
C13_ScenarioASteps ==
    (call = "normalize_decomposer_output" /\ pc = "done" /\ raw = ScenarioAStepsText)
        => ScenarioAPlan(norm[1])

\* C13 witness: the call on the "steps" text has returned a plan.
C13_Witness ==
    /\ call = "normalize_decomposer_output" /\ pc = "done"
    /\ raw = ScenarioAStepsText
    /\ norm[1].ok

\* ------------------------------------------------------------------------
\* Validation reports
\* ------------------------------------------------------------------------
ValidationReturned == call = "parse_validation" /\ pc = "done"
ValidationDecoded ==
    /\ call = "parse_validation" /\ pc # "start"
    /\ raw.form \in {"dict", "json", "fenced", "literal"}
    /\ IsDict(raw.doc)
Without(d, k) == [x \in (DOMAIN d) \ {k} |-> d[x]]
ZeroScore == [kind |-> "float", n |-> 0]

\* C14: a report that parse_validation returns holds, for every absent
\* field, its default (status "failed", adequacy_score 0.0, empty lists,
\* empty summary and goal) and for every present field its value (the score
\* as a float); leaving a field out of a mapping that parses never makes
\* the call fail; and {"status": "ok"} yields status "ok" with every other
\* field at its default.
C14_Defaults ==
    /\ ValidationReturned =>
         LET d == raw.doc.dict
             r == report[1]
         IN /\ r.status = IF HasKey(d, "status") THEN d.status ELSE "failed"
            /\ r.adequacy_score =
                 IF HasKey(d, "adequacy_score")
                 THEN [kind |-> "float", n |-> d.adequacy_score.n] ELSE ZeroScore
            /\ r.executed_task_ids =
                 IF HasKey(d, "executed_task_ids") THEN d.executed_task_ids ELSE <<>>
            /\ r.missing_task_ids =
                 IF HasKey(d, "missing_task_ids") THEN d.missing_task_ids ELSE <<>>
            /\ r.extraneous_tasks =
                 IF HasKey(d, "extraneous_tasks") THEN d.extraneous_tasks ELSE <<>>
            /\ Len(r.issues) = IF HasKey(d, "issues") THEN Len(d.issues) ELSE 0
            /\ \A k \in 1..Len(r.issues) :
                 /\ r.issues[k].severity = d.issues[k].severity
                 /\ r.issues[k].message = d.issues[k].message
            /\ r.summary = IF HasKey(d, "summary") THEN d.summary[1] ELSE ""
            /\ r.goal = IF HasKey(d, "goal") THEN d.goal[1] ELSE ""
            /\ \A k \in DOMAIN d :
                 ParseValidation([raw EXCEPT !.doc = JDict(Without(d, k))]).ok
    /\ (ValidationDecoded /\ raw.doc = ScenarioBDoc) =>
         /\ pc = "done"
         /\ report[1] =
              [goal |-> "", plan_task_count |-> 0, executed_task_ids |-> <<>>,
               missing_task_ids |-> <<>>, extraneous_tasks |-> <<>>,
               adequacy_score |-> ZeroScore, status |-> "ok", issues |-> <<>>,
               summary |-> ""]

\* C14 witness: a report was returned for a mapping without status and
\* without adequacy_score that holds issues.
C14_Witness ==
    /\ ValidationReturned
    /\ ~HasKey(raw.doc.dict, "status")
    /\ ~HasKey(raw.doc.dict, "adequacy_score")
    /\ HasKey(raw.doc.dict, "issues") /\ raw.doc.dict.issues # <<>>
    /\ report[1].status = "failed"

\* The mapping of the call parses when its status is one of the Literal
OtherFieldsValid ==
    ParseValidation([raw EXCEPT !.doc = JDict([raw.doc.dict EXCEPT !.status = "ok"])]).ok
StatusPresent == ValidationDecoded /\ HasKey(raw.doc.dict, "status")

\* C15 as stated: whatever status string a decoded report holds, the report
\* is returned carrying that status verbatim.
C15_AnyStatusAccepted ==
    (StatusPresent /\ OtherFieldsValid) =>
        /\ pc = "done"
        /\ report[1].status = raw.doc.dict.status

\* C15 amended: a status that is one of ok, needs_revision, failed is
\* carried verbatim by the report returned; a decoded report with any other
\* status is rejected: parse_validation raises ValueError and returns no
\* report.
C15_StatusChecked ==
    StatusPresent =>
        IF raw.doc.dict.status \in {"ok", "needs_revision", "failed"}
        THEN /\ OtherFieldsValid => pc = "done"
             /\ pc = "done" => report[1].status = raw.doc.dict.status
        ELSE /\ pc = "failed"
             /\ report = NoneV
             /\ error = Some("Failed to parse validation report")

\* C15 witness: a mapping whose only flaw is the status "partial" was
\* rejected.
C15_Witness ==
    /\ StatusPresent /\ OtherFieldsValid
    /\ raw.doc.dict.status = "partial"
    /\ pc = "failed"

\* The values of a mapping are of the kinds the validator prompt asks for
\* (crew_agents.py, VALIDATOR_SYSTEM): a status of the three, numbers as
\* numbers, and issues of severity warning, error or critical
PromptSeverities == {"warning", "error", "critical"}
PromptConformant(d) ==
    /\ HasKey(d, "goal") => ~IsNone(d.goal)
    /\ HasKey(d, "summary") => ~IsNone(d.summary)
    /\ HasKey(d, "plan_task_count") => d.plan_task_count.kind = "int"
    /\ HasKey(d, "adequacy_score") => d.adequacy_score.kind \in {"float", "int"}
    /\ HasKey(d, "status") => d.status \in {"ok", "needs_revision", "failed"}
    /\ HasKey(d, "issues") =>
          \A k \in 1..Len(d.issues) :
              /\ HasKey(d.issues[k], "severity")
              /\ d.issues[k].severity \in PromptSeverities
              /\ HasKey(d.issues[k], "message")

\* C16: for a raw input that decodes to a mapping whose values are of the
\* kinds the validator prompt asks for, issues of severity critical
\* included, parse_validation returns a ValidationReport.
C16_OnlyDecodeFails ==
    (ValidationDecoded /\ PromptConformant(raw.doc.dict)) =>
        /\ pc = "done"
        /\ ~IsNone(report)

\* ------------------------------------------------------------------------
\* The failure of parse_plan
\* ------------------------------------------------------------------------
ParsePlanFailed == call = "parse_plan" /\ pc = "failed"

\* C20 as stated: a failure of parse_plan carries a prefix of the raw input
\* of at most 800 characters, and never the whole of a raw input longer
\* than that.
C20_Prefix800 ==
    ParsePlanFailed =>
        /\ detail[1].prefix <= 800
        /\ raw_len > 800 => detail[1].prefix < raw_len

\* C20 amended: a failure of parse_plan carries the last underlying cause
\* and the first 1000 characters of the raw input, the whole input when it
\* is no longer; of a raw input longer than 1000 characters it never
\* carries the whole.
C20_Prefix1000 ==
    ParsePlanFailed =>
        /\ ~IsNone(detail)
        /\ detail[1].prefix <= 1000
        /\ raw_len <= 1000 => detail[1].prefix = raw_len
        /\ raw_len > 1000 => detail[1].prefix < raw_len
        /\ IsNone(data) => detail[1].cause = "literal_eval error"
        /\ ~IsNone(data) => detail[1].cause = last_error

\* C20 witness: all three strategies failed on a raw output of 1400
\* characters.
C20_Witness ==
    /\ ParsePlanFailed
    /\ ~IsNone(data)
    /\ raw_len = 1400

\* ------------------------------------------------------------------------
\* The phases of run_advanced
\* ------------------------------------------------------------------------
Running == call = "run_advanced"
Called(name) == \E k \in 1..Len(invoked) : invoked[k] = name
PhaseCalls ==
    <<"decomp_crew.kickoff", "parse_plan", "exec_crew.kickoff",
      "val_crew.kickoff", "parse_validation">>

\* C17: once the execution phase has returned an answer the request never
\* fails; the response is successful and its output is that answer; when
\* the validation phase was asked for and yields no report (the validator
\* call or parse_validation raised), validation is absent and the notes say
\* that validation failed.
C17_ValidationNonFatal ==
    (Running /\ ~IsNone(final_answer)) =>
        /\ pc \in {"validation", "done"}
        /\ IsNone(http_error)
        /\ pc = "done" =>
             /\ ~IsNone(response)
             /\ response[1].success
             /\ response[1].output = final_answer[1]
             /\ (raw.validator /\ IsNone(validation_report)) =>
                   /\ IsNone(response[1].validation)
                   /\ response[1].notes = Some("Validation failed")
             /\ ~IsNone(validation_report) =>
                   /\ response[1].validation = validation_report
                   /\ response[1].notes # Some("Validation failed")

\* C17 witness: parse_validation raised and the answer was returned.
C17_Witness ==
    /\ Running /\ pc = "done"
    /\ Called("parse_validation")
    /\ IsNone(validation_report)
    /\ response[1].output = "answer"

\* C18: when parse_plan has failed in the decomposition phase the request
\* has failed with the HTTPException of that phase, there is no response,
\* and neither the execution crew nor the validation crew was ever called.
C18_ParseFailureAborts ==
    (Running /\ Called("parse_plan") /\ IsNone(plan)) =>
        /\ pc = "failed"
        /\ http_error = HTTPException(500, "Decomposition failed")
        /\ IsNone(response)
        /\ invoked = <<"decomp_crew.kickoff", "parse_plan">>
        /\ IsNone(exec_inputs) /\ IsNone(val_inputs)
        /\ IsNone(final_answer) /\ IsNone(validation_report)

\* C18 witness: parse_plan has failed in a run.
C18_Witness ==
    /\ Running /\ Called("parse_plan") /\ IsNone(plan)
    /\ pc = "failed"

\* C19: the calls of a request are a prefix of decomposition kickoff,
\* parse_plan, execution kickoff, validation kickoff, parse_validation, each
\* made at most once; the execution crew is called only with a Plan
\* returned, the validation crew only with an answer returned, and both get
\* the same serialized plan, that of the Plan returned.
C19_PhaseOrder ==
    Running =>
        /\ Len(invoked) <= Len(PhaseCalls)
        /\ invoked = SubSeq(PhaseCalls, 1, Len(invoked))
        /\ Called("exec_crew.kickoff") <=> ~IsNone(exec_inputs)
        /\ Called("val_crew.kickoff") <=> ~IsNone(val_inputs)
        /\ ~IsNone(exec_inputs) =>
              /\ ~IsNone(plan)
              /\ exec_inputs[1].plan_json = PlanDict(plan[1])
        /\ ~IsNone(val_inputs) =>
              /\ ~IsNone(final_answer)
              /\ val_inputs[1].final_answer = final_answer[1]
              /\ val_inputs[1].plan_json = exec_inputs[1].plan_json
        /\ pc = "done" => ~IsNone(response)

\* C19 witness: all five calls were made, the report asked for a revision
\* and the request wanted revisions enforced.
C19_Witness ==
    /\ Running /\ pc = "done"
    /\ invoked = PhaseCalls
    /\ raw.enforce_revision
    /\ ~IsNone(validation_report)
    /\ validation_report[1].status = "needs_revision"

\* ------------------------------------------------------------------------
\* Input encodings of parse_plan
\* ------------------------------------------------------------------------
\* The raw value encodes a valid canonical plan, and the call has ended
ValidCanonicalParsed ==
    /\ call = "parse_plan" /\ pc \in {"done", "failed"}
    /\ IsDict(raw.doc)
    /\ DirectAttempt(raw.doc).ok

GivenTasks == Get(NormalizerData, "tasks", <<>>)
FirstUse(steps, tool) ==
    CHOOSE i \in 1..Len(steps) :
        /\ steps[i].tool = tool
        /\ \A k \in 1..(i - 1) : steps[k].tool # tool

\* C22: without given tasks the normalizer returns exactly one task per
\* distinct tool of the steps, in order of first appearance, with ids t1,
\* t2, ..., priority medium and suggested_tools = [tool]; with a non-empty
\* tasks list the given tasks are returned unchanged.
C22_TaskSynthesis ==
    NormalizeReturned =>
        LET tasks == norm[1].tasks
            steps == norm[1].steps
            ToolOf(j) == tasks[j].suggested_tools[1]
        IN IF GivenTasks # <<>> THEN tasks = GivenTasks
           ELSE /\ \A j \in 1..Len(tasks) :
                     /\ tasks[j].id = TaskIdOf(j)
                     /\ tasks[j].priority = "medium"
                     /\ Len(tasks[j].suggested_tools) = 1
                /\ {ToolOf(j) : j \in 1..Len(tasks)} = {steps[i].tool : i \in 1..Len(steps)}
                /\ \A j, k \in 1..Len(tasks) :
                     j < k => FirstUse(steps, ToolOf(j)) < FirstUse(steps, ToolOf(k))

\* C22 witness: a tool used by two steps with another tool used in between
\* got one synthesized task, so that there are fewer tasks than steps.
C22_Witness ==
    /\ NormalizeReturned
    /\ GivenTasks = <<>>
    /\ \E i, k, m \in 1..Len(norm[1].steps) :
          /\ i < k /\ k < m
          /\ norm[1].steps[i].tool = norm[1].steps[m].tool
          /\ norm[1].steps[i].tool # norm[1].steps[k].tool
    /\ Len(norm[1].tasks) = 2
    /\ Len(norm[1].steps) > 2

\* ------------------------------------------------------------------------
\* Step-shape resolution
\* ------------------------------------------------------------------------
\* What each shape alone yields on the raw steps of the call
NestedYield == NestedActionsSteps(RawStepsIn, <<>>)
CanonicalYield == CanonicalSteps(RawStepsIn, <<>>)
HeuristicYield == HeuristicFromStepShape(RawStepsIn, <<>>)

\* The returned steps are the given ones, the back-filled task_id apart
ReturnedFrom(steps) ==
    /\ Len(norm[1].steps) = Len(steps)
    /\ \A i \in 1..Len(steps) :
          \A k \in (DOMAIN steps[i]) \ {"task_id"} : norm[1].steps[i][k] = steps[i][k]

\* C23: the returned steps are those of the nested-actions shape when it
\* yields a step, else those of the canonical shape when it yields a step,
\* else those of the heuristic shape: they come from one shape, and the raw
\* steps of a later shape contribute nothing.
C23_FirstShapeOnly ==
    NormalizeReturned =>
        IF NestedYield # <<>> THEN ReturnedFrom(NestedYield)
        ELSE IF CanonicalYield # <<>> THEN ReturnedFrom(CanonicalYield)
        ELSE ReturnedFrom(HeuristicYield)

\* C23 witness: the raw steps mix a nested-actions step and a canonical
\* step that both yield, and only the steps of the former are returned.
C23_Witness ==
    /\ NormalizeReturned
    /\ NestedYield # <<>> /\ CanonicalYield # <<>>
    /\ ReturnedFrom(NestedYield)

\* C24: the steps returned from the nested-actions shape or from the
\* heuristic shape have the orders 1, 2, ..., n in list order, also when
\* actions or raw steps were dropped in between.
C24_SequentialOrder ==
    (NormalizeReturned /\ (NestedYield # <<>> \/ CanonicalYield = <<>>)) =>
        \A i \in 1..Len(norm[1].steps) : norm[1].steps[i].order = IntOrder(i)

\* C24 witness: the heuristic shape skipped the first of two raw steps and
\* gave the step of the second one the order 1.
C24_Witness ==
    /\ NormalizeReturned
    /\ NestedYield = <<>> /\ CanonicalYield = <<>>
    /\ Len(RawStepsIn) = 2 /\ Len(norm[1].steps) = 1
    /\ HeuristicFromStepShape(<<RawStepsIn[1]>>, <<>>) = <<>>
    /\ norm[1].steps[1].order = IntOrder(1)

\* ------------------------------------------------------------------------
\* Input cleaning in the two shapes
\* ------------------------------------------------------------------------
\* The raw steps the heuristic shape keeps, and the args the nested-actions
\* shape stores for an action with the given tool and string input
HeuristicKept(s) == HeuristicFromStepShape(<<s>>, <<>>) # <<>>
NestedArgsFor(tool, input) == ActionArgs([tool |-> tool, input |-> input], tool)

\* C25: a step of the heuristic shape with a string input has the args the
\* nested-actions shape stores for the same tool and the same input: the
\* same prefix stripped, under the same key.
C25_SameCleaning ==
    (NormalizeReturned /\ NestedYield = <<>> /\ CanonicalYield = <<>>) =>
        LET kept == SelectSeq(RawStepsIn, HeuristicKept) IN
        \A i \in 1..Len(kept) :
            IsStr(kept[i].dict.input) =>
                norm[1].steps[i].args =
                    NestedArgsFor(norm[1].steps[i].tool, kept[i].dict.input)

\* ------------------------------------------------------------------------
\* Concurrent requests: calls of parse_plan, normalize_decomposer_output and
\* parse_validation that interleave at the steps of parse_plan.  A caller
\* keeps the object it passed; data of a frame refers to it (data = raw,
\* crew_agents.py:510-511) until json.dumps(data) copies it (line 571).
\* ------------------------------------------------------------------------
Clients == {1, 2}

SynonymStep ==
    JDict([order |-> IntOrder(1), tool |-> "task_extraction", args |-> EmptyDict])
SharedCalls ==
    {[fn |-> "parse_plan", passed |-> [form |-> f, doc |-> d]] :
        f \in {"dict", "json"},
        d \in {Document("canonical", <<TaskSummarize>>, <<StepOfT1>>),
               Document("wrapped", <<TaskSummarize>>, <<StepOfT1>>),
               Document("double", <<TaskSummarize>>, <<StepOfT1>>),
               Document("canonical", <<>>, <<SynonymStep>>),
               JInt(5)}}
    \cup {[fn |-> "parse_plan", passed |-> [form |-> "prose", doc |-> JInt(0)]]}
    \cup {[fn |-> "normalize_decomposer_output", passed |-> x] :
            x \in {ScenarioAStepsText,
                   [form |-> "json", doc |-> Document("goal", <<>>, <<SynonymStep>>)],
                   [form |-> "garbage", doc |-> JInt(0)]}}
    \cup {[fn |-> "parse_validation", passed |-> x] :
            x \in {[form |-> "dict", doc |-> ScenarioBDoc],
                   [form |-> "json", doc |-> JDict([issues |-> <<IssueCritical>>])],
                   [form |-> "prose", doc |-> ScenarioBDoc]}}

NewFrame == [pc |-> "start", data |-> NoneV, last_error |-> "", result |-> NoneV]

SharedInit ==
    /\ call = "concurrent" /\ raw = <<>> /\ raw_len = TextLen
    /\ pc = "start" /\ data = NoneV /\ last_error = ""
    /\ plan = NoneV /\ error = NoneV /\ detail = NoneV /\ norm = NoneV
    /\ inferred = NoneV /\ report = NoneV
    /\ plan_json = NoneV /\ final_answer = NoneV
    /\ validation_report = NoneV /\ notes = NoneV
    /\ exec_inputs = NoneV /\ val_inputs = NoneV
    /\ response = NoneV /\ http_error = NoneV
    /\ invoked = <<>>
    /\ registry = ALLOWED_TOOLS /\ synonym_table = TOOL_NAME_MAP
    /\ requests \in [Clients -> SharedCalls]
    /\ frames = [c \in Clients |-> NewFrame]

At(c, fn, where) == requests[c].fn = fn /\ frames[c].pc = where

\* The frame after an attempt with outcome r (lines 565-567, 580-587)
FrameAfter(frame, r, next_pc) ==
    IF r.ok
    THEN [frame EXCEPT !.pc = "done", !.result = Some(r)]
    ELSE IF next_pc = "failed"
    THEN [frame EXCEPT !.pc = "failed", !.last_error = r.err,
             !.result = Some(Failure("Failed to parse plan JSON after all attempts"))]
    ELSE [frame EXCEPT !.pc = next_pc, !.last_error = r.err]

\* parse_plan of client c, lines 497-532
SharedDecode(c) ==
    /\ At(c, "parse_plan", "start")
    /\ frames' = [frames EXCEPT ![c] =
          IF requests[c].passed.form \in {"dict", "json", "fenced", "literal"}
          THEN [@ EXCEPT !.pc = "direct", !.data = Some(requests[c].passed.doc)]
          ELSE [@ EXCEPT !.pc = "failed",
                   !.result = Some(Failure("Failed to parse plan - not valid JSON or Python dict"))]]
    /\ UNCHANGED <<registry, synonym_table, requests, singleVars>>

\* parse_plan of client c, lines 537-548
SharedDirect(c) ==
    /\ At(c, "parse_plan", "direct")
    /\ frames' = [frames EXCEPT ![c] =
          FrameAfter(@, DirectAttempt(frames[c].data[1]), "unwrap")]
    /\ UNCHANGED <<registry, synonym_table, requests, singleVars>>

\* parse_plan of client c, lines 550-563: data is rebound, nothing is written
SharedUnwrap(c) ==
    /\ At(c, "parse_plan", "unwrap")
    /\ frames' = [frames EXCEPT ![c] =
          [FrameAfter(@, UnwrapAttempt(frames[c].data[1]), "normalize")
              EXCEPT !.data = Some(UnwrapData(frames[c].data[1]))]]
    /\ UNCHANGED <<registry, synonym_table, requests, singleVars>>

\* normalize_decomposer_output(data) on the caller's mapping itself instead
\* of on json.dumps(data): the assignments s["tool"] = tool_name (line 187)
\* and s["task_id"] = ... (line 225) are seen by the caller
SharedNormalizeInPlace(c) ==
    /\ At(c, "parse_plan", "normalize")
    /\ frames' = [frames EXCEPT ![c] =
          FrameAfter(@, NormalizeAttempt(frames[c].data[1]), "failed")]
    /\ requests' = [requests EXCEPT ![c].passed.doc =
          LET normalized == NormalizeData(frames[c].data[1]) IN
          IF requests[c].passed.form = "dict" /\ normalized.ok
          THEN JDict(SetKey(frames[c].data[1].dict, "steps",
                            [i \in 1..Len(normalized.steps) |-> JDict(normalized.steps[i])]))
          ELSE @]
    /\ UNCHANGED <<registry, synonym_table, singleVars>>

\* parse_plan of client c, lines 569-587: the normalizer gets the text
\* json.dumps(data) and works on what it decodes from it
SharedNormalize(c) ==
    /\ At(c, "parse_plan", "normalize")
    /\ frames' = [frames EXCEPT ![c] =
          FrameAfter(@, NormalizeAttempt(frames[c].data[1]), "failed")]
    /\ UNCHANGED <<registry, synonym_table, requests, singleVars>>

\* normalize_decomposer_output of client c
SharedNormalizeCall(c) ==
    /\ At(c, "normalize_decomposer_output", "start")
    /\ frames' = [frames EXCEPT ![c] =
          [@ EXCEPT !.pc = "done",
              !.result = Some(NormalizeDecomposerOutput(requests[c].passed))]]
    /\ UNCHANGED <<registry, synonym_table, requests, singleVars>>

\* parse_validation of client c
SharedParseValidation(c) ==
    /\ At(c, "parse_validation", "start")
    /\ frames' = [frames EXCEPT ![c] =
          [@ EXCEPT !.pc = "done", !.result = Some(ParseValidation(requests[c].passed))]]
    /\ UNCHANGED <<registry, synonym_table, requests, singleVars>>

SharedNext ==
    \E c \in Clients :
        \/ SharedDecode(c) \/ SharedDirect(c) \/ SharedUnwrap(c) \/ SharedNormalize(c)
        \/ SharedNormalizeCall(c) \/ SharedParseValidation(c)

SharedSpec == SharedInit /\ [][SharedNext]_vars

\* What one call returns or raises when it runs alone
Alone(request) ==
    CASE request.fn = "parse_plan" ->
            LET r == ParsePlan(request.passed) IN
            IF r.ok \/ request.passed.form \notin {"dict", "json", "fenced", "literal"}
            THEN r ELSE Failure("Failed to parse plan JSON after all attempts")
      [] request.fn = "normalize_decomposer_output" ->
            NormalizeDecomposerOutput(request.passed)
      [] request.fn = "parse_validation" -> ParseValidation(request.passed)

Ended(c) == ~IsNone(frames[c].result)

\* One step of the concurrent requests: the tables and what the callers
\* passed stay as they are, and a call that has ended has the result of the
\* same call run alone
C26_Step ==
    /\ registry' = registry /\ registry = ALLOWED_TOOLS
    /\ synonym_table' = synonym_table /\ synonym_table = TOOL_NAME_MAP
    /\ requests' = requests
    /\ \A c \in Clients :
          ~IsNone(frames'[c].result) => frames'[c].result = Some(Alone(requests'[c]))

\* C26: in every interleaving of parse_plan, normalize_decomposer_output and
\* parse_validation calls, no step modifies the Tool Registry, the synonym
\* table or a mapping a caller passed, and each call's result is the one it
\* has when run alone on its own input.
C26_Pure == [][C26_Step]_vars

\* C26 witness: both calls have ended, one of them a parse_plan on a mapping
\* that went through the normalizer's canonical loop, which rewrites the
\* tool of a step, while the other call was under way.
C26_Witness ==
    /\ \A c \in Clients : Ended(c)
    /\ \E c \in Clients :
          /\ requests[c] = [fn |-> "parse_plan",
                            passed |-> [form |-> "dict",
                                        doc |-> Document("canonical", <<>>, <<SynonymStep>>)]]
          /\ frames[c].result[1].ok
          /\ frames[c].result[1].plan.steps[1].tool = "detect_tasks"
          /\ requests[c].passed.doc.dict.steps[1].dict.tool = "task_extraction"

\* ------------------------------------------------------------------------
\* The error type of the parsers
\* ------------------------------------------------------------------------
\* The headlines of the ValueErrors that parse_plan and parse_validation
\* raise
ValueErrors ==
    {"Failed to parse plan - not valid JSON or Python dict",
     "Failed to parse plan JSON after all attempts",
     "Failed to parse validation JSON",
     "Failed to parse validation report"}

\* C27: a call of parse_plan or of parse_validation that ends without
\* returning ends with a ValueError, whatever the input: no other error
\* type reaches the caller.
C27_OnlyValueError ==
    (call \in {"parse_plan", "parse_validation"}
        /\ pc \notin {"start", "direct", "unwrap", "normalize", "done"}) =>
        /\ pc = "failed"
        /\ ~IsNone(error) /\ error[1] \in ValueErrors

\* ------------------------------------------------------------------------
\* The tools of the heuristic shape and of the synonym table
\* ------------------------------------------------------------------------
\* C28: every result of _infer_tool_from_task_text, the fallback tool used
\* when it infers nothing, and every non-null target of the synonym table
\* is a tool of ALLOWED_TOOLS, so that the heuristic shape yields a step
\* for every raw step with "task" and "input" that it does not leave to
\* another shape: its registry check drops none.
C28_HeuristicToolsRegistered ==
    /\ \A name \in DOMAIN synonym_table :
          ~IsNone(synonym_table[name]) => synonym_table[name][1] \in registry
    /\ InferReturned =>
          (IF IsNone(inferred) THEN "process_email" ELSE inferred[1]) \in registry
    /\ HeuristicReached =>
          LET shaped == SelectSeq(RawStepsIn, HeuristicShaped) IN
          /\ shaped # <<>> =>
                (norm[1].ok \/ norm[1].err # "Could not normalize steps")
          /\ norm[1].ok =>
                /\ Len(norm[1].steps) = Len(shaped)
                /\ \A i \in 1..Len(shaped) : norm[1].steps[i].tool \in registry

\* C28 witness: the heuristic shape has returned two steps for two raw
\* steps, one of them with the fallback tool.
C28_Witness ==
    /\ HeuristicReached
    /\ norm[1].ok
    /\ Len(RawStepsIn) = 2 /\ Len(norm[1].steps) = 2
    /\ norm[1].steps[2].tool = "process_email"
    /\ IsNone(InferToolFromTaskText(RawStepsIn[2].dict.task))

\* ------------------------------------------------------------------------
\* Synthesized tasks and the steps they own
\* ------------------------------------------------------------------------
\* The tasks were synthesized and no resolved step had a task_id of its own
AllBackFilled ==
    /\ NormalizeReturned
    /\ GivenTasks = <<>>
    /\ \A i \in 1..Len(ResolvedSteps) : LacksTaskId(ResolvedSteps[i])

\* C29: with synthesized tasks and no step with a task_id of its own, two
\* returned steps have the same task_id exactly when they have the same
\* tool, every task is referenced by a step, and the task ids are pairwise
\* distinct.
C29_GroupedByTool ==
    AllBackFilled =>
        LET tasks == norm[1].tasks
            steps == norm[1].steps
        IN /\ \A i, k \in 1..Len(steps) :
                (steps[i].task_id = steps[k].task_id) <=> (steps[i].tool = steps[k].tool)
           /\ \A j \in 1..Len(tasks) :
                \E i \in 1..Len(steps) : steps[i].task_id = Some(tasks[j].id)
           /\ \A j, k \in 1..Len(tasks) : j # k => tasks[j].id # tasks[k].id

\* C29 witness: four back-filled steps share two synthesized tasks, the
\* steps of the second task lying between those of the first.
C29_Witness ==
    /\ AllBackFilled
    /\ Len(norm[1].steps) = 4
    /\ norm[1].steps[1].task_id = Some("t1") /\ norm[1].steps[2].task_id = Some("t2")
    /\ norm[1].steps[3].task_id = Some("t1") /\ norm[1].steps[4].task_id = Some("t2")

\* ------------------------------------------------------------------------
\* Doubly wrapped plans
\* ------------------------------------------------------------------------
\* The raw value is {"plan": {"plan": P}}
DoublyWrapped ==
    /\ call = "parse_plan" /\ raw.form = "dict" /\ IsDict(raw.doc)
    /\ DOMAIN raw.doc.dict = {"plan"} /\ IsDict(raw.doc.dict.plan)
    /\ DOMAIN raw.doc.dict.plan.dict = {"plan"}
    /\ IsDict(raw.doc.dict.plan.dict.plan)
InnerPlan == raw.doc.dict.plan.dict.plan

\* P is a canonical plan, one that Direct builds a Plan from, and its steps
\* have registered tools
CanonicalRegistered(p) ==
    /\ DirectAttempt(p).ok
    /\ \A i \in 1..Len(p.dict.steps) : p.dict.steps[i].dict.tool \in ALLOWED_TOOLS

\* C30: parse_plan of {"plan": {"plan": P}}, P a canonical plan with
\* registered tools, leaves the inner {"plan": P} in data after Unwrap and
\* returns through Normalize the Plan that P parses to.
C30_DoublyWrapped ==
    (DoublyWrapped /\ CanonicalRegistered(InnerPlan)) =>
        /\ pc \in {"normalize", "done", "failed"} => data = Some(raw.doc.dict.plan)
        /\ pc # "failed"
        /\ pc = "done" => plan = Some(DirectAttempt(InnerPlan).plan)
====
